---- MODULE Spec2Model ----
(***************************************************************************)
(* TaxBot: the record store (CsvRepository over conceptos_dian.csv), the   *)
(* legacy runner writing the same file, and the pipeline orchestrator      *)
(* (TaxBotPipeline) with its flock-based run lock.                         *)
(*                                                                         *)
(* Library behaviour the handlers rely on is modelled by what it does:     *)
(*   - a DataFrame cell of the "date" column is tagged with its Python     *)
(*     type: "str" (a 'YYYY-MM-DD' string), "ts" (a pandas Timestamp,      *)
(*     column dtype datetime64) ; Series.dt exists only on a datetime64    *)
(*     column, datetime.strptime accepts only a str;                       *)
(*   - read_csv turns an empty field into NaN, to_csv writes NaN as the    *)
(*     empty field, and read_csv of a zero-byte file raises;               *)
(*   - open(path, "w") and shutil.copy2 truncate the target before they    *)
(*     write it; shutil.move of a temp file in the same directory is one   *)
(*     rename.                                                             *)
(***************************************************************************)
EXTENDS Integers, Sequences, FiniteSets, TLC

VARIABLES
    store,      \* the store file conceptos_dian.csv
    lock,       \* TRUE iff the lock marker conceptos_dian.lock exists
    backups,    \* backup files, by the timestamp second in their name
    clock,      \* wall clock, in seconds (datetime.now())
    pc,         \* per store client: position inside the running call
    op,         \* per store client: the operation called last
    arg,        \* per store client: its arguments
    out,        \* per store client: the DataFrame about to be written
    res,        \* per store client: the value returned / exception raised
    obs,        \* per store client: the file content its last read saw
    hist,       \* the sequential client's completed calls before the last one
    lockPath,   \* taxbot.lock: the inode linked at that path, 0 if none
    flockOf,    \* per inode: the pipeline instance holding flock on it, 0 if none
    fd,         \* per pipeline instance: inode of self.lock_file, 0 if closed
    ppc,        \* per pipeline instance: position inside run()
    popt,       \* per pipeline instance: run()'s arguments
    shutdown,   \* per pipeline instance: _shutdown_requested
    concepts,   \* per pipeline instance: the concepts carried between stages
    exit,       \* per pipeline instance: how the last run() ended
    sent,       \* notifications handed to the email service
    held,       \* per pipeline instance: the inode its run() got flock on, 0 if none
    created,    \* number of lock files created so far
    ev,         \* per pipeline instance: what its current run() has done so far
    fpc,        \* position inside the running call of _fetch_soup
    attempt,    \* number of the attempt of that call
    fres,       \* what the last call of _fetch_soup returned or raised
    flog,       \* the requests and the sleeps of that call, in their order
    site,       \* the month pages the site serves, each one its table rows
    spc,        \* the scraper whose scrape is running, "idle" if none
    month,      \* index of the month page the running scrape parses next
    parsed,     \* the links of the concepts the last parse of a month returned
    seen,       \* per scraper: the links seen (_seen_links, seen_links)
    collected,  \* the links of the concepts collected by the last scrape
    net,        \* the requests and the sleeps of the last scrape, in their order
    fetched     \* per month page of the last scrape: whether it could be fetched

storeVars == <<store, lock, backups, clock, pc, op, arg, out, res, obs>>
pipeVars == <<lockPath, flockOf, fd, ppc, popt, shutdown, concepts, exit, sent,
              held, created, ev>>
scrapeVars ==
    <<fpc, attempt, fres, flog, site, spc, month, parsed, seen, collected, net,
      fetched>>
vars == <<storeVars, hist, pipeVars, scrapeVars>>

----------------------------------------------------------------------------
(* Bounds *)

MaxClock == 1
HistLen == 2

Clients == {1, 2}
Instances == {1, 2}
MaxInodes == 3
Inodes == 1..MaxInodes
Seconds == 0..MaxClock

----------------------------------------------------------------------------
(* Concepts (models/concept.py) *)

None == "None"
NaN == "NaN"
SinTema == "Sin tema"

Day(d, tod) == [t |-> "datetime", d |-> d, tod |-> tod]

cA ==
    [title |-> "T1", date |-> Day(2, 0), theme |-> "IVA", descriptor |-> "D1",
     link |-> "L1", full_text |-> "F1", summary |-> None, analysis |-> None]
cA2 ==
    [title |-> "T1b", date |-> Day(1, 0), theme |-> "Renta", descriptor |-> "D1",
     link |-> "L1", full_text |-> "F1", summary |-> "S1", analysis |-> "A1"]
cB ==
    [title |-> "T2", date |-> Day(1, 1), theme |-> "IVA", descriptor |-> "",
     link |-> "L2", full_text |-> "", summary |-> "S2", analysis |-> "A2"]

Concepts == {cA, cA2, cB}
Links == {"L1", "L2"}
ThemeOrd == [x \in {"IVA", "Renta", SinTema} |-> CASE x = "IVA" -> 1
                                                   [] x = "Renta" -> 2
                                                   [] OTHER -> 3]

\* The lists a caller may pass to save_concepts.
Batches == {<<>>, <<cA>>, <<cA2>>, <<cB>>, <<cA, cA2>>, <<cA, cB>>}
\* The lists collect_concepts can return (already de-duplicated by link).
Scrapes == {<<>>, <<cA>>, <<cB>>, <<cA2, cB>>}

StrCell(d) == [t |-> "str", d |-> d]
TsCell(d) == [t |-> "ts", d |-> d]

\* Concept.to_record: the date formatted '%Y-%m-%d', None written as "".
\* full_text is not part of the record.
ToRecord(c) ==
    [title |-> c.title, date |-> StrCell(c.date.d), theme |-> c.theme,
     descriptor |-> c.descriptor, link |-> c.link,
     summary |-> IF c.summary = None THEN "" ELSE c.summary,
     analysis |-> IF c.analysis = None THEN "" ELSE c.analysis]

\* datetime.strptime(x, "%Y-%m-%d"): a str is required.
StrptimeOk(cell) == cell.t = "str"

\* Concept.from_record: the keyword arguments are evaluated in order, so
\* strptime runs first; full_text is not passed and takes its default "".
\* Result: <<c>> or <<>> when the constructor raises.
FromRecord(r) ==
    IF ~StrptimeOk(r.date) THEN <<>>
    ELSE <<[title |-> r.title, date |-> Day(r.date.d, 0),
            theme |-> IF r.theme = "" THEN SinTema ELSE r.theme,
            descriptor |-> r.descriptor, link |-> r.link, full_text |-> "",
            summary |-> IF r.summary = "" THEN None ELSE r.summary,
            analysis |-> IF r.analysis = "" THEN None ELSE r.analysis]>>

----------------------------------------------------------------------------
(* Files and DataFrames *)

NoFile == [exists |-> FALSE, hdr |-> FALSE, rows |-> <<>>]
\* A file just opened for writing: truncated, nothing written yet.
ZeroByte == [exists |-> TRUE, hdr |-> FALSE, rows |-> <<>>]
CsvFile(rows) == [exists |-> TRUE, hdr |-> TRUE, rows |-> rows]

\* pandas.read_csv on the string columns: an empty field is NaN.
NaCell(x) == IF x = "" THEN NaN ELSE x
\* DataFrame.fillna("") / to_csv's na_rep.
FillCell(x) == IF x = NaN THEN "" ELSE x

ReadRow(r) ==
    [title |-> NaCell(r.title), date |-> r.date, theme |-> NaCell(r.theme),
     descriptor |-> NaCell(r.descriptor), link |-> NaCell(r.link),
     summary |-> NaCell(r.summary), analysis |-> NaCell(r.analysis)]

\* pd.read_csv(path): fails on a zero-byte file (no columns to parse).
ReadCsvOk(f) == f.exists /\ f.hdr
ReadCsv(f) == [i \in 1..Len(f.rows) |-> ReadRow(f.rows[i])]

\* pd.to_datetime(column, errors="coerce")
ToDatetime(rows) ==
    [i \in 1..Len(rows) |-> [rows[i] EXCEPT !.date = TsCell(rows[i].date.d)]]

\* DataFrame.to_csv(index=False): NaN as the empty field; a datetime64
\* column of midnights is written as dates.
WriteRow(r) ==
    [title |-> FillCell(r.title), date |-> StrCell(r.date.d),
     theme |-> FillCell(r.theme), descriptor |-> FillCell(r.descriptor),
     link |-> FillCell(r.link), summary |-> FillCell(r.summary),
     analysis |-> FillCell(r.analysis)]
ToCsv(rows) == CsvFile([i \in 1..Len(rows) |-> WriteRow(rows[i])])

LinksOf(rows) == {rows[i].link : i \in 1..Len(rows)}

----------------------------------------------------------------------------
(* DataFrame operations *)

\* DataFrame.drop_duplicates(subset=["link"], keep="last")
RECURSIVE DropDuplicates(_)
DropDuplicates(rows) ==
    IF rows = <<>> THEN <<>>
    ELSE IF Head(rows).link \in LinksOf(Tail(rows))
         THEN DropDuplicates(Tail(rows))
         ELSE <<Head(rows)>> \o DropDuplicates(Tail(rows))

\* Row a sorts strictly before row b under
\* sort_values(["theme", "date"], ascending=[True, False]).
Before(a, b) ==
    \/ ThemeOrd[a.theme] < ThemeOrd[b.theme]
    \/ ThemeOrd[a.theme] = ThemeOrd[b.theme] /\ a.date.d > b.date.d

RECURSIVE InsertSorted(_, _)
InsertSorted(s, r) ==
    IF s = <<>> THEN <<r>>
    ELSE IF Before(r, Head(s)) THEN <<r>> \o s
         ELSE <<Head(s)>> \o InsertSorted(Tail(s), r)

\* The sort is stable: rows with equal keys keep their order.
RECURSIVE SortValues(_)
SortValues(rows) ==
    IF rows = <<>> THEN <<>>
    ELSE InsertSorted(SortValues(SubSeq(rows, 1, Len(rows) - 1)), rows[Len(rows)])

IsSorted(rows) == \A i \in 1..(Len(rows) - 1) : ~Before(rows[i + 1], rows[i])

\* A date column on which .dt works whatever its cells are.
DtAccessorAny(rows) == TRUE

\* Series.dt: defined only when the column's dtype is datetime64, that is
\* when every cell is a Timestamp; on a column of str it raises AttributeError.
DtAccessor(rows) == \A i \in 1..Len(rows) : rows[i].date.t = "ts"

\* column.dt.strftime("%Y-%m-%d")
Strftime(rows) ==
    [i \in 1..Len(rows) |-> [rows[i] EXCEPT !.date = StrCell(rows[i].date.d)]]

\* DataFrame.fillna("")
Fillna(rows) ==
    [i \in 1..Len(rows) |->
        [title |-> FillCell(rows[i].title), date |-> rows[i].date,
         theme |-> FillCell(rows[i].theme),
         descriptor |-> FillCell(rows[i].descriptor),
         link |-> FillCell(rows[i].link), summary |-> FillCell(rows[i].summary),
         analysis |-> FillCell(rows[i].analysis)]]

NewFrame(batch) == [i \in 1..Len(batch) |-> ToRecord(batch[i])]

----------------------------------------------------------------------------
(* CsvRepository: the computations of its handlers *)

Failed == [ok |-> FALSE, rows |-> <<>>]
Frame(rows) == [ok |-> TRUE, rows |-> rows]

\* _load_dataframe: an absent file is the empty frame; a frame with rows gets
\* its date column converted; a read failure is a RepositoryError.
LoadDataframe(f, ioerr) ==
    IF ~f.exists THEN Frame(<<>>)
    ELSE IF ioerr \/ ~ReadCsvOk(f) THEN Failed
    ELSE IF f.rows = <<>> THEN Frame(<<>>)
    ELSE Frame(ToDatetime(ReadCsv(f)))

\* save_concepts, "Load existing data" to "Sort by theme and date": an empty
\* frame is replaced by the new records as they are; otherwise concatenate,
\* drop duplicate links keeping the last, sort.
MergeConcepts(df, batch) ==
    IF df = <<>> THEN NewFrame(batch)
    ELSE SortValues(DropDuplicates(df \o NewFrame(batch)))

\* save_concepts, "Convert date back to string" and "Fill NaN values".
PrepareForSave(rows) ==
    IF ~DtAccessor(rows) THEN Failed
    ELSE Frame(Fillna(Strftime(rows)))

\* The filter of delete_concept inverted: only the rows with the link.
KeepLink(rows, l) == SelectSeq(rows, LAMBDA r : r.link = l)

\* delete_concept: the frame without the link.
RECURSIVE WithoutLink(_, _)
WithoutLink(rows, l) ==
    IF rows = <<>> THEN <<>>
    ELSE IF Head(rows).link = l THEN WithoutLink(Tail(rows), l)
         ELSE <<Head(rows)>> \o WithoutLink(Tail(rows), l)

RECURSIVE WithLink(_, _)
WithLink(rows, l) ==
    IF rows = <<>> THEN <<>>
    ELSE IF Head(rows).link = l THEN <<Head(rows)>> \o WithLink(Tail(rows), l)
         ELSE WithLink(Tail(rows), l)

----------------------------------------------------------------------------
(* The legacy runner (taxbot/pipeline/runner.py, data_manager.py) *)

\* load_existing_records: an absent file and a read failure both give the
\* empty frame; the date column stays a column of str.
LoadExistingRecords(f, ioerr) ==
    IF ~f.exists \/ ioerr \/ ~ReadCsvOk(f) THEN <<>> ELSE ReadCsv(f)

RECURSIVE NotIn(_, _)
NotIn(cs, links) ==
    IF cs = <<>> THEN <<>>
    ELSE IF Head(cs).link \in links THEN NotIn(Tail(cs), links)
         ELSE <<Head(cs)>> \o NotIn(Tail(cs), links)

\* runner._filter_new_concepts
LegacyFilter(scraped, existing) == NotIn(scraped, LinksOf(existing) \ {NaN})

\* merge_records
MergeRecords(existing, new) ==
    Fillna(Strftime(SortValues(ToDatetime(
        DropDuplicates(IF existing = <<>> THEN NewFrame(new)
                       ELSE existing \o NewFrame(new))))))

\* process_concepts: summary and analysis are overwritten; the collaborator's
\* answer is one fixed text, an empty full_text gets the fixed placeholder.
LegacyProcess(c) ==
    [c EXCEPT !.summary = IF c.full_text = "" THEN "No hay contenido" ELSE "Resumen",
              !.analysis = "Analisis"]

ProcessConcepts(cs) == [i \in 1..Len(cs) |-> LegacyProcess(cs[i])]

----------------------------------------------------------------------------
(* Calls of the store's clients *)

RepositoryError == "RepositoryError"
\* RepositoryError("Repository is locked by another process")
RepositoryLocked == "RepositoryError: locked"
\* An exception that is no RepositoryError (AttributeError, TypeError)
PyException == "Exception"

\* What a call returned or raised: k = "ok" with the value in b (a bool),
\* n (a backup path's timestamp) or c (a list of concepts); else the exception.
Res(k, b, n, c) == [k |-> k, b |-> b, n |-> n, c |-> c]
Ok == Res("ok", TRUE, 0, <<>>)
Raise(k) == Res(k, FALSE, 0, <<>>)
NoRes == Res("none", FALSE, 0, <<>>)

\* The arguments of search_concepts and get_concepts: the query, the theme
\* filter (None for no filter), offset and limit; no date filter is passed.
Page(query, theme, offset, limit) ==
    [query |-> query, theme |-> theme, offset |-> offset, limit |-> limit]

\* Arguments of a call: the batch of save_concepts, the link of
\* delete_concept / get_concept_by_id, the backup path of restore, the list
\* scraped by the legacy runner; io tells which file access of the call the
\* environment makes fail ("none", "read", "write"); pre records the store's
\* links at the call.
Arg(batch, link, path, scraped, io) ==
    [batch |-> batch, link |-> link, path |-> path, scraped |-> scraped,
     io |-> io, pre |-> {}, page |-> Page("", None, 0, 0)]
NoArg == Arg(<<>>, "", 0, <<>>, "none")

Idle(p) == pc[p] = "idle"

\* The history window: the last HistLen calls before the current one, each with
\* its result and the store file it left. It is kept when hist.on is set.
Push(h, e) ==
    IF ~h.on THEN h
    ELSE [h EXCEPT !.calls = IF Len(@) < HistLen THEN Append(@, e)
                             ELSE Append(Tail(@), e)]

\* A client calls an operation: the previous result is dropped.
Call(p, o, a, first) ==
    /\ Idle(p)
    /\ hist' = Push(hist, [op |-> op[p], arg |-> arg[p], res |-> res[p],
                           post |-> store])
    /\ op' = [op EXCEPT ![p] = o]
    /\ arg' = [arg EXCEPT ![p] = [a EXCEPT !.pre = LinksOf(store.rows)]]
    /\ pc' = [pc EXCEPT ![p] = first]
    /\ res' = [res EXCEPT ![p] = NoRes]
    /\ obs' = [obs EXCEPT ![p] = NoFile]
    /\ out' = [out EXCEPT ![p] = <<>>]
    /\ UNCHANGED <<store, lock, backups, clock, pipeVars, scrapeVars>>

\* save_concepts: "if not concepts: return", else on to _acquire_lock.
SaveConcepts(p, batch, io) ==
    Call(p, "save", Arg(batch, "", 0, <<>>, io),
         IF batch = <<>> THEN "return" ELSE "acquire")

DeleteConcept(p, l, io) == Call(p, "delete", Arg(<<>>, l, 0, <<>>, io), "acquire")

ClearAll(p, io) == Call(p, "clear_all", Arg(<<>>, "", 0, <<>>, io), "acquire")

\* The return of a call that had nothing to do.
Return(p) ==
    /\ pc[p] = "return"
    /\ pc' = [pc EXCEPT ![p] = "idle"]
    /\ res' = [res EXCEPT ![p] = Ok]
    /\ UNCHANGED <<store, lock, backups, clock, op, arg, out, obs, hist, pipeVars, scrapeVars>>

\* _acquire_lock called inside the try block: a failed acquisition would run
\* the finally clause.
AcquireLockInTry(p) ==
    /\ pc[p] = "acquire"
    /\ IF lock
       THEN /\ pc' = [pc EXCEPT ![p] = "release"]
            /\ res' = [res EXCEPT ![p] = Raise(RepositoryLocked)]
       ELSE /\ pc' = [pc EXCEPT ![p] = "touch"]
            /\ UNCHANGED res
    /\ UNCHANGED <<store, lock, backups, clock, op, arg, out, obs, hist, pipeVars, scrapeVars>>

\* _acquire_lock, first statement: lock_path.exists(), raising when it does.
\* The call is made before the try block: no finally clause runs.
AcquireLock(p) ==
    /\ pc[p] = "acquire"
    /\ IF lock
       THEN /\ pc' = [pc EXCEPT ![p] = "idle"]
            /\ res' = [res EXCEPT ![p] = Raise(RepositoryLocked)]
       ELSE /\ pc' = [pc EXCEPT ![p] = "touch"]
            /\ UNCHANGED res
    /\ UNCHANGED <<store, lock, backups, clock, op, arg, out, obs, hist, pipeVars, scrapeVars>>

\* _acquire_lock, second statement: lock_path.touch().
TouchLock(p) ==
    /\ pc[p] = "touch"
    /\ lock' = TRUE
    /\ pc' = [pc EXCEPT ![p] = "body"]
    /\ UNCHANGED <<store, backups, clock, op, arg, out, res, obs, hist, pipeVars, scrapeVars>>

\* The body of save_concepts up to the call of _save_dataframe.
SaveBody(p) ==
    /\ pc[p] = "body" /\ op[p] = "save"
    /\  LET df == LoadDataframe(store, arg[p].io = "read")
            frame == IF df.ok THEN PrepareForSave(MergeConcepts(df.rows, arg[p].batch))
                     ELSE Failed
        IN  IF ~df.ok
            THEN /\ res' = [res EXCEPT ![p] = Raise(RepositoryError)]
                 /\ pc' = [pc EXCEPT ![p] = "release"]
                 /\ UNCHANGED out
            ELSE IF ~frame.ok
            THEN /\ res' = [res EXCEPT ![p] = Raise(PyException)]
                 /\ pc' = [pc EXCEPT ![p] = "release"]
                 /\ UNCHANGED out
            ELSE /\ out' = [out EXCEPT ![p] = frame.rows]
                 /\ res' = [res EXCEPT ![p] = Ok]
                 /\ pc' = [pc EXCEPT ![p] = "save_df"]
    /\ UNCHANGED <<store, lock, backups, clock, op, arg, obs, hist, pipeVars, scrapeVars>>

\* The body of delete_concept up to the call of _save_dataframe.
DeleteBody(p) ==
    /\ pc[p] = "body" /\ op[p] = "delete"
    /\  LET df == LoadDataframe(store, arg[p].io = "read")
        IN  IF ~df.ok
            THEN /\ res' = [res EXCEPT ![p] = Raise(RepositoryError)]
                 /\ pc' = [pc EXCEPT ![p] = "release"]
                 /\ UNCHANGED out
            ELSE IF df.rows = <<>> \/ arg[p].link \notin LinksOf(df.rows)
            THEN /\ res' = [res EXCEPT ![p] = Res("ok", FALSE, 0, <<>>)]
                 /\ pc' = [pc EXCEPT ![p] = "release"]
                 /\ UNCHANGED out
            ELSE /\ out' = [out EXCEPT ![p] = WithoutLink(df.rows, arg[p].link)]
                 /\ res' = [res EXCEPT ![p] = Ok]
                 /\ pc' = [pc EXCEPT ![p] = "save_df"]
    /\ UNCHANGED <<store, lock, backups, clock, op, arg, obs, hist, pipeVars, scrapeVars>>

\* The body of clear_all up to the call of _save_dataframe.
ClearBody(p) ==
    /\ pc[p] = "body" /\ op[p] = "clear_all"
    /\ out' = [out EXCEPT ![p] = <<>>]
    /\ res' = [res EXCEPT ![p] = Ok]
    /\ pc' = [pc EXCEPT ![p] = "save_df"]
    /\ UNCHANGED <<store, lock, backups, clock, op, arg, obs, hist, pipeVars, scrapeVars>>

\* _save_dataframe: the frame is written to a temporary file of the same
\* directory, which is then moved over the store file; a failure of either
\* leaves the store file as it was and raises RepositoryError.
SaveDataframe(p) ==
    /\ pc[p] = "save_df"
    /\  IF arg[p].io = "write"
        THEN /\ res' = [res EXCEPT ![p] = Raise(RepositoryError)]
             /\ UNCHANGED store
        ELSE /\ store' = ToCsv(out[p])
             /\ UNCHANGED res
    /\ pc' = [pc EXCEPT ![p] = "release"]
    /\ UNCHANGED <<lock, backups, clock, op, arg, out, obs, hist, pipeVars, scrapeVars>>

\* _release_lock, from the finally clause: the marker is removed if present.
ReleaseLock(p) ==
    /\ pc[p] = "release"
    /\ lock' = FALSE
    /\ pc' = [pc EXCEPT ![p] = "idle"]
    /\ UNCHANGED <<store, backups, clock, op, arg, out, res, obs, hist, pipeVars, scrapeVars>>

\* The process of a client ends while the client is between _acquire_lock and
\* the end of _release_lock: the marker stays, nothing of the process runs
\* any more.
Crash(p) ==
    /\ pc[p] \in {"body", "save_df", "release"}
    /\ pc' = [pc EXCEPT ![p] = "crashed"]
    /\ UNCHANGED <<store, lock, backups, clock, op, arg, out, res, obs, hist, pipeVars, scrapeVars>>

\* backup: the store file is copied to conceptos_dian_backup_<timestamp>.csv,
\* the timestamp having a resolution of one second; an existing file of that
\* name is overwritten. No lock is taken.
BackupCopy(f, bk, now) ==
    IF ~f.exists THEN [ok |-> FALSE, files |-> bk]
    ELSE [ok |-> TRUE, files |-> [bk EXCEPT ![now] = f]]

CallBackup(p) == Call(p, "backup", NoArg, "backup")

Backup(p) ==
    /\ pc[p] = "backup"
    /\ LET b == BackupCopy(store, backups, clock)
       IN  /\ backups' = b.files
           /\ res' = [res EXCEPT ![p] = IF b.ok THEN Res("ok", TRUE, clock, <<>>)
                                        ELSE Raise(RepositoryError)]
    /\ pc' = [pc EXCEPT ![p] = "idle"]
    /\ UNCHANGED <<store, lock, clock, op, arg, out, obs, hist, pipeVars, scrapeVars>>

CallRestore(p, path) == Call(p, "restore", Arg(<<>>, "", path, <<>>, "none"), "restore")

\* restore, up to the copy: the backup file must exist; the current store is
\* backed up first (self.backup()). No lock is taken.
RestoreBackup(p) ==
    /\ pc[p] = "restore"
    /\ LET b == BackupCopy(store, backups, clock)
       IN  IF ~backups[arg[p].path].exists \/ ~b.ok
           THEN /\ res' = [res EXCEPT ![p] = Raise(RepositoryError)]
                /\ pc' = [pc EXCEPT ![p] = "idle"]
                /\ UNCHANGED backups
           ELSE /\ backups' = b.files
                /\ pc' = [pc EXCEPT ![p] = "copy_open"]
                /\ UNCHANGED res
    /\ UNCHANGED <<store, lock, clock, op, arg, out, obs, hist, pipeVars, scrapeVars>>

\* restore, shutil.copy2(backup_file, self.csv_path): the store file is opened
\* for writing, which truncates it ...
RestoreOpen(p) ==
    /\ pc[p] = "copy_open"
    /\ store' = ZeroByte
    /\ pc' = [pc EXCEPT ![p] = "copy_write"]
    /\ UNCHANGED <<lock, backups, clock, op, arg, out, res, obs, hist, pipeVars, scrapeVars>>

\* ... and the content of the backup file is written into it.
RestoreWrite(p) ==
    /\ pc[p] = "copy_write"
    /\ store' = backups[arg[p].path]
    /\ res' = [res EXCEPT ![p] = Ok]
    /\ pc' = [pc EXCEPT ![p] = "idle"]
    /\ UNCHANGED <<lock, backups, clock, op, arg, out, obs, hist, pipeVars, scrapeVars>>

\* get_concept_by_id: one read of the store file, without the lock. Any
\* exception inside, Concept.from_record's included, becomes RepositoryError.
GetById(f, l, ioerr) ==
    LET df == LoadDataframe(f, ioerr)
        hit == IF df.ok THEN WithLink(df.rows, l) ELSE <<>>
    IN  IF ~df.ok THEN Raise(RepositoryError)
        ELSE IF df.rows = <<>> \/ hit = <<>> THEN Res("ok", FALSE, 0, <<>>)
        ELSE IF FromRecord(hit[1]) = <<>> THEN Raise(RepositoryError)
        ELSE Res("ok", TRUE, 0, FromRecord(hit[1]))

CallGetConceptById(p, l, io) ==
    Call(p, "get_by_id", Arg(<<>>, l, 0, <<>>, io), "get")

GetConceptById(p) ==
    /\ pc[p] = "get"
    /\ res' = [res EXCEPT ![p] = GetById(store, arg[p].link, arg[p].io = "read")]
    /\ obs' = [obs EXCEPT ![p] = store]
    /\ pc' = [pc EXCEPT ![p] = "idle"]
    /\ UNCHANGED <<store, lock, backups, clock, op, arg, out, hist, pipeVars, scrapeVars>>

\* runner.main, first statements: nothing scraped, nothing to do.
LegacyMain(p, scraped, io) ==
    Call(p, "legacy", Arg(<<>>, "", 0, scraped, io),
         IF scraped = <<>> THEN "return" ELSE "legacy_load")

\* runner.main: load_existing_records, _filter_new_concepts, process_concepts
\* and merge_records.
LegacyLoad(p) ==
    /\ pc[p] = "legacy_load"
    /\  LET existing == LoadExistingRecords(store, arg[p].io = "read")
            fresh == LegacyFilter(arg[p].scraped, existing)
        IN  IF fresh = <<>>
            THEN /\ pc' = [pc EXCEPT ![p] = "idle"]
                 /\ res' = [res EXCEPT ![p] = Ok]
                 /\ UNCHANGED out
            ELSE /\ out' = [out EXCEPT ![p] =
                              MergeRecords(existing, ProcessConcepts(fresh))]
                 /\ pc' = [pc EXCEPT ![p] = "legacy_open"]
                 /\ UNCHANGED res
    /\ obs' = [obs EXCEPT ![p] = store]
    /\ UNCHANGED <<store, lock, backups, clock, op, arg, hist, pipeVars, scrapeVars>>

\* _save_and_notify, combined.to_csv(CSV_PATH): the store file itself is
\* opened for writing, which truncates it ...
LegacyOpen(p) ==
    /\ pc[p] = "legacy_open"
    /\ store' = ZeroByte
    /\ pc' = [pc EXCEPT ![p] = "legacy_write"]
    /\ UNCHANGED <<lock, backups, clock, op, arg, out, res, obs, hist, pipeVars, scrapeVars>>

\* ... and the merged frame is written into it.
LegacyWrite(p) ==
    /\ pc[p] = "legacy_write"
    /\ store' = ToCsv(out[p])
    /\ res' = [res EXCEPT ![p] = Ok]
    /\ pc' = [pc EXCEPT ![p] = "idle"]
    /\ UNCHANGED <<lock, backups, clock, op, arg, out, obs, hist, pipeVars, scrapeVars>>

\* A second of wall-clock time passes.
Tick ==
    /\ clock < MaxClock
    /\ clock' = clock + 1
    /\ UNCHANGED <<store, lock, backups, pc, op, arg, out, res, obs, hist, pipeVars, scrapeVars>>

----------------------------------------------------------------------------
(* TaxBotPipeline (pipeline.py): each instance is a process of its own *)

\* run()'s arguments: the defaults, a dry run, and a run without AI and
\* notification.
RunOptions ==
    { [dry_run |-> FALSE, notify |-> TRUE, process_ai |-> TRUE],
      [dry_run |-> TRUE, notify |-> TRUE, process_ai |-> TRUE],
      [dry_run |-> FALSE, notify |-> FALSE, process_ai |-> FALSE] }

RECURSIVE FromRecords(_)
\* get_concepts' loop over the rows: a row from_record rejects is skipped.
FromRecords(rows) ==
    IF rows = <<>> THEN <<>>
    ELSE FromRecord(Head(rows)) \o FromRecords(Tail(rows))

\* The limit _filter_new_concepts passes to get_concepts.
ReadLimit == 10000

\* df.iloc[offset:offset + limit]
Iloc(rows, offset, limit) ==
    SubSeq(rows, offset + 1, IF Len(rows) < offset + limit THEN Len(rows)
                             ELSE offset + limit)

\* column.str.contains(pat, case=False, na=False) on one cell, for the
\* patterns "iva" and "t1" and the texts of the model's concepts.
Contains(cell, pat) ==
    \/ pat = "iva" /\ cell = "IVA"
    \/ pat = "t1" /\ cell \in {"T1", "T1b"}

\* The rows that pass the search mask (when search is set) and the theme
\* filter, in the order of the frame.
Filtered(rows, pg, search) ==
    SelectSeq(rows, LAMBDA r :
        /\ search => \E col \in {"title", "theme", "descriptor", "summary", "analysis"} :
                        Contains(r[col], pg.query)
        /\ pg.theme # None => Contains(r.theme, pg.theme))

\* get_concepts: the filter, the slice, then Concept.from_record on each row
\* of the slice, a row it rejects being skipped. The .str accessor raises on
\* a column with no str in it (every cell NaN); any exception inside becomes
\* RepositoryError.
GetConcepts(f, pg, ioerr) ==
    LET df == LoadDataframe(f, ioerr)
    IN  IF ~df.ok THEN Raise(RepositoryError)
        ELSE IF df.rows = <<>> THEN Res("ok", TRUE, 0, <<>>)
        ELSE IF pg.theme # None /\ \A i \in 1..Len(df.rows) : df.rows[i].theme = NaN
        THEN Raise(RepositoryError)
        ELSE Res("ok", TRUE, 0,
                 FromRecords(Iloc(Filtered(df.rows, pg, FALSE), pg.offset, pg.limit)))

\* search_concepts: the mask over the five text columns, the theme filter,
\* total counted before the slice, has_more computed from the concepts that
\* from_record accepted. The result carries has_more in b and total in n.
SearchConcepts(f, pg, ioerr) ==
    LET df == LoadDataframe(f, ioerr)
        hits == Filtered(df.rows, pg, TRUE)
        found == FromRecords(Iloc(hits, pg.offset, pg.limit))
    IN  IF ~df.ok THEN Raise(RepositoryError)
        ELSE IF df.rows = <<>> THEN Res("ok", FALSE, 0, <<>>)
        ELSE IF \E col \in {"title", "theme", "descriptor", "summary", "analysis"} :
                   \A i \in 1..Len(df.rows) : df.rows[i][col] = NaN
        THEN Raise(RepositoryError)
        ELSE Res("ok", pg.offset + Len(found) < Len(hits), Len(hits), found)

\* get_concept_count: the number of rows; any exception inside, a failing load
\* included, is logged and 0 returned.
GetConceptCount(f, ioerr) ==
    LET df == LoadDataframe(f, ioerr)
    IN  IF ~df.ok THEN Res("ok", TRUE, 0, <<>>)
        ELSE Res("ok", TRUE, Len(df.rows), <<>>)

\* get_themes: sorted(df["theme"].dropna().unique()); any exception inside is
\* logged and [] returned.
GetThemes(f, ioerr) ==
    LET df == LoadDataframe(f, ioerr)
        themes == IF df.ok
                  THEN {df.rows[i].theme : i \in 1..Len(df.rows)} \ {NaN}
                  ELSE {}
        sorted == CHOOSE s \in [1..Cardinality(themes) -> themes] :
                      \A i, j \in DOMAIN s : i < j => ThemeOrd[s[i]] < ThemeOrd[s[j]]
    IN  IF ~df.ok \/ df.rows = <<>> THEN Res("ok", TRUE, 0, <<>>)
        ELSE Res("ok", TRUE, 0, sorted)

\* get_latest_concepts: the first `limit` rows by date descending, each through
\* Concept.from_record, a rejected row skipped; any exception of the load is
\* logged and [] returned.
GetLatestConcepts(f, limit, ioerr) ==
    LET df == LoadDataframe(f, ioerr)
        n == Len(df.rows)
        order == CHOOSE s \in [1..n -> 1..n] :
                     /\ \A i, j \in 1..n : i # j => s[i] # s[j]
                     /\ \A i, j \in 1..n :
                            i < j => df.rows[s[i]].date.d >= df.rows[s[j]].date.d
        df_sorted == [k \in 1..n |-> df.rows[order[k]]]
    IN  IF ~df.ok \/ df.rows = <<>> THEN Res("ok", TRUE, 0, <<>>)
        ELSE Res("ok", TRUE, 0, FromRecords(Iloc(df_sorted, 0, limit)))

\* concept_exists: concept_id in df["link"].values; any exception inside is
\* logged and False returned.
ConceptExists(f, l, ioerr) ==
    LET df == LoadDataframe(f, ioerr)
    IN  IF ~df.ok \/ df.rows = <<>> THEN Res("ok", FALSE, 0, <<>>)
        ELSE Res("ok", l \in LinksOf(df.rows), 0, <<>>)

\* One of the reading operations that take no lock is called: search_concepts,
\* get_concepts, get_concept_count, get_themes, get_latest_concepts or
\* concept_exists.
CallQuery(p, o, pg, l, io) ==
    Call(p, o, [Arg(<<>>, l, 0, <<>>, io) EXCEPT !.page = pg], "query")

\* The body of the reading operation: one read of the store file, without
\* the lock.
RunQuery(p) ==
    /\ pc[p] = "query"
    /\ res' = [res EXCEPT ![p] =
                 LET ioerr == arg[p].io = "read"
                 IN  CASE op[p] = "search" -> SearchConcepts(store, arg[p].page, ioerr)
                       [] op[p] = "count" -> GetConceptCount(store, ioerr)
                       [] op[p] = "themes" -> GetThemes(store, ioerr)
                       [] op[p] = "latest" ->
                              GetLatestConcepts(store, arg[p].page.limit, ioerr)
                       [] op[p] = "exists" -> ConceptExists(store, arg[p].link, ioerr)
                       [] OTHER -> GetConcepts(store, arg[p].page, ioerr)]
    /\ obs' = [obs EXCEPT ![p] = store]
    /\ pc' = [pc EXCEPT ![p] = "idle"]
    /\ UNCHANGED <<store, lock, backups, clock, op, arg, out, hist, pipeVars, scrapeVars>>

\* _filter_new_concepts: a failure of get_concepts is logged and the set of
\* existing links left empty.
FilterNewConcepts(cs, f, ioerr) ==
    LET got == GetConcepts(f, Page("", None, 0, ReadLimit), ioerr)
        existing_links == IF got.k = "ok"
                          THEN {got.c[k].link : k \in 1..Len(got.c)}
                          ELSE {}
    IN  NotIn(cs, existing_links)

\* What the AI collaborator does when asked for the summary and for the
\* analysis of one concept: an answer, an answer with no text, an exception of
\* client.chat, or is_available() being False at that call.
AiOuts ==
    [sum : {"ok", "empty", "error", "unavailable"},
     ana : {"ok", "error", "unavailable"}]

AllOk == [sum |-> "ok", ana |-> "ok"]

\* The outcomes for the concepts of a scrape, in their order: at most one
\* failure for the first concept, success or two failures for the second one.
AiBatches ==
    {[k \in 1..2 |-> IF k = 1 THEN o ELSE p] :
        o \in {x \in AiOuts : x.sum = "ok" \/ x.ana = "ok"},
        p \in {AllOk, [sum |-> "error", ana |-> "unavailable"]}}

\* process_concepts_batch with no check of is_available.
ProcessBatchUnchecked(cs, available, outs) ==
    [concepts |-> [k \in 1..Len(cs) |->
                      [cs[k] EXCEPT !.summary = "Resumen no disponible",
                                    !.analysis = "Analisis no disponible"]],
     chats |-> 0]

\* summarize_concept letting the exception of client.chat out.
SummarizeRaising(c, o) ==
    IF c.full_text = "" THEN "No hay contenido para resumir."
    ELSE IF o.sum = "unavailable" THEN "Resumen no disponible: Ollama no configurado."
    ELSE IF o.sum = "error" THEN None
    ELSE IF o.sum = "empty" THEN ""
    ELSE "Resumen"

\* summarize_concept: the fixed text for a concept without full_text, a
\* placeholder when is_available() is False or client.chat raises, else the
\* stripped content of the answer.
SummarizeConcept(c, o) ==
    IF c.full_text = "" THEN "No hay contenido para resumir."
    ELSE IF o.sum = "unavailable" THEN "Resumen no disponible: Ollama no configurado."
    ELSE IF o.sum = "error" THEN "Resumen no disponible por error en Ollama."
    ELSE IF o.sum = "empty" THEN ""
    ELSE "Resumen"

\* analyze_concept: a placeholder for an empty summary, when is_available()
\* is False or when client.chat raises, else the content of the answer.
AnalyzeConcept(c, summary, o) ==
    IF summary = "" THEN "Analisis no disponible."
    ELSE IF o.ana = "unavailable" THEN "Analisis no disponible: Ollama no configurado."
    ELSE IF o.ana = "error" THEN "Analisis no disponible por error en Ollama."
    ELSE "Analisis"

\* The body of the loop of process_concepts_batch on one concept.
AiConcept(c, o) ==
    LET summary == SummarizeConcept(c, o)
    IN  [c EXCEPT !.summary = summary,
                  !.analysis = AnalyzeConcept(c, summary, o)]

\* The calls of client.chat made for one concept.
ChatCalls(c, o) ==
    (IF c.full_text # "" /\ o.sum # "unavailable" THEN 1 ELSE 0)
    + (IF SummarizeConcept(c, o) # "" /\ o.ana # "unavailable" THEN 1 ELSE 0)

RECURSIVE SumChats(_, _)
SumChats(cs, outs) ==
    IF cs = <<>> THEN 0
    ELSE ChatCalls(Head(cs), Head(outs)) + SumChats(Tail(cs), Tail(outs))

\* process_concepts_batch: the input as it is when the list is empty or
\* is_available() is False; else every concept gets summary and analysis.
ProcessConceptsBatch(cs, available, outs) ==
    IF cs = <<>> \/ ~available THEN [concepts |-> cs, chats |-> 0]
    ELSE [concepts |-> [k \in 1..Len(cs) |-> AiConcept(cs[k], outs[k])],
          chats |-> SumChats(cs, outs)]

\* _process_with_ai: the concepts unchanged when is_available() is False,
\* else process_concepts_batch, which asks is_available() again.
ProcessWithAi(cs, available, atBatch, outs) ==
    IF available THEN ProcessConceptsBatch(cs, atBatch, outs)
    ELSE [concepts |-> cs, chats |-> 0]

\* repository.save_concepts run to its end by a pipeline instance: its result
\* and the store file it leaves.
SaveOutcome(f, marker, batch) ==
    LET df == LoadDataframe(f, FALSE)
        frame == IF df.ok THEN PrepareForSave(MergeConcepts(df.rows, batch))
                 ELSE Failed
    IN  IF batch = <<>> THEN [res |-> Ok, file |-> f]
        ELSE IF marker THEN [res |-> Raise(RepositoryLocked), file |-> f]
        ELSE IF ~df.ok THEN [res |-> Raise(RepositoryError), file |-> f]
        ELSE IF ~frame.ok THEN [res |-> Raise(PyException), file |-> f]
        ELSE [res |-> Ok, file |-> ToCsv(frame.rows)]

\* The shutdown checks of run() in another order: enriching before filtering.
NextStageEnrichFirst ==
    [check_start |-> "discover", check_scraped |-> "ai",
     check_ai |-> "filter", check_filtered |-> "save", check_saved |-> "notify"]

\* The shutdown checks of run() and the stage each one leads to.
NextStage ==
    [check_start |-> "discover", check_scraped |-> "filter",
     check_filtered |-> "ai", check_ai |-> "save", check_saved |-> "notify"]

\* Positions of run() between a successful _acquire_lock and _release_lock.
StagePcs ==
    DOMAIN NextStage \cup {"discover", "scrape", "filter", "ai", "save", "notify"}

Running(i) == ppc[i] \in StagePcs

\* The stage run() executes at each position.
StageName ==
    [discover |-> "Discovering", scrape |-> "Parsing", filter |-> "Filtering",
     ai |-> "Enriching", save |-> "Saving", notify |-> "Notifying"]

\* Whether run() executes the stage of a position, given its arguments:
\* "if process_ai and not dry_run", "if not dry_run",
\* "if notify and not dry_run and new_concepts".
Invoked(i, stage) ==
    CASE stage = "ai" -> popt[i].process_ai /\ ~popt[i].dry_run
      [] stage = "save" -> ~popt[i].dry_run
      [] stage = "notify" -> popt[i].notify /\ ~popt[i].dry_run /\ concepts[i] # <<>>
      [] OTHER -> TRUE

\* What a run has done: the stages it started, in order; whether reading the
\* store failed in the filter; whether every scraped link was in the store
\* file at the filter; what became of the enrichment, with the number of chat
\* calls; what became of the save.
NoEv ==
    [started |-> <<>>, read_failed |-> FALSE, all_stored |-> FALSE,
     ai |-> "none", chats |-> 0, save |-> "none"]

Start(e, stage) == [e EXCEPT !.started = Append(@, stage)]

\* run() leaves its try block: the finally clause follows.
ExitRun(i, how) ==
    /\ exit' = [exit EXCEPT ![i] = how]
    /\ ppc' = [ppc EXCEPT ![i] = "release"]

\* A process starts and calls run().
Run(i, o) ==
    /\ ppc[i] = "idle"
    /\ ppc' = [ppc EXCEPT ![i] = "acquire_open"]
    /\ popt' = [popt EXCEPT ![i] = o]
    /\ shutdown' = [shutdown EXCEPT ![i] = FALSE]
    /\ concepts' = [concepts EXCEPT ![i] = <<>>]
    /\ exit' = [exit EXCEPT ![i] = "none"]
    /\ held' = [held EXCEPT ![i] = 0]
    /\ ev' = [ev EXCEPT ![i] = Start(NoEv, "AcquiringLock")]
    /\ UNCHANGED <<storeVars, hist, scrapeVars, lockPath, flockOf, fd, sent, created>>

\* _signal_handler: SIGTERM or SIGINT reaches a running process.
Shutdown(i) ==
    /\ ppc[i] # "idle"
    /\ ~shutdown[i]
    /\ shutdown' = [shutdown EXCEPT ![i] = TRUE]
    /\ UNCHANGED <<storeVars, hist, scrapeVars, lockPath, flockOf, fd, ppc, popt, concepts,
                   exit, sent, held, created, ev>>

\* _acquire_lock, lock_path.open("w"): the file at the path is opened, a new
\* one being created when the path names none.
AcquireOpen(i) ==
    /\ ppc[i] = "acquire_open"
    /\ lockPath # 0 \/ created < MaxInodes
    /\ IF lockPath # 0
       THEN /\ fd' = [fd EXCEPT ![i] = lockPath]
            /\ UNCHANGED <<lockPath, created>>
       ELSE /\ created' = created + 1
            /\ lockPath' = created + 1
            /\ fd' = [fd EXCEPT ![i] = created + 1]
    /\ ppc' = [ppc EXCEPT ![i] = "acquire_flock"]
    /\ UNCHANGED <<storeVars, hist, scrapeVars, flockOf, popt, shutdown, concepts, exit, sent, held, ev>>

\* _acquire_lock going on although flock failed.
AcquireFlockIgnore(i) ==
    /\ ppc[i] = "acquire_flock"
    /\ IF flockOf[fd[i]] = 0
       THEN /\ flockOf' = [flockOf EXCEPT ![fd[i]] = i]
            /\ held' = [held EXCEPT ![i] = fd[i]]
       ELSE UNCHANGED <<flockOf, held>>
    /\ ppc' = [ppc EXCEPT ![i] = "check_start"]
    /\ UNCHANGED <<storeVars, hist, scrapeVars, lockPath, fd, popt, shutdown, concepts, sent,
                   created, ev, exit>>

\* _acquire_lock, flock(LOCK_EX | LOCK_NB) on the opened file: it fails when
\* another process holds the lock of that file; run() then returns False
\* from inside its try block, self.lock_file still being set.
AcquireFlock(i) ==
    /\ ppc[i] = "acquire_flock"
    /\ IF flockOf[fd[i]] = 0
       THEN /\ flockOf' = [flockOf EXCEPT ![fd[i]] = i]
            /\ held' = [held EXCEPT ![i] = fd[i]]
            /\ ppc' = [ppc EXCEPT ![i] = "check_start"]
            /\ UNCHANGED exit
       ELSE /\ ExitRun(i, "not_acquired")
            /\ UNCHANGED <<flockOf, held>>
    /\ UNCHANGED <<storeVars, hist, scrapeVars, lockPath, fd, popt, shutdown, concepts, sent, created, ev>>

\* "if self._shutdown_requested: return False", before each stage; the stage
\* that follows starts when run()'s arguments ask for it.
CheckShutdown(i) ==
    /\ ppc[i] \in DOMAIN NextStage
    /\ IF shutdown[i]
       THEN ExitRun(i, "aborted") /\ UNCHANGED ev
       ELSE /\ ppc' = [ppc EXCEPT ![i] = NextStage[ppc[i]]]
            /\ ev' = [ev EXCEPT ![i] =
                        IF Invoked(i, NextStage[ppc[i]])
                        THEN Start(@, StageName[NextStage[ppc[i]]]) ELSE @]
            /\ UNCHANGED exit
    /\ UNCHANGED <<storeVars, hist, scrapeVars, lockPath, flockOf, fd, popt, shutdown, concepts,
                   sent, held, created>>

\* Step 1, scrape_concepts, first part: _discover_month_links, which falls
\* back to the list page on any error; without a link nothing is scraped
\* and run() returns True. Parsing the months follows at once.
Discover(i, found) ==
    /\ ppc[i] = "discover"
    /\ IF found
       THEN /\ ppc' = [ppc EXCEPT ![i] = "scrape"]
            /\ ev' = [ev EXCEPT ![i] = Start(@, StageName["scrape"])]
            /\ UNCHANGED exit
       ELSE ExitRun(i, "no_concepts") /\ UNCHANGED ev
    /\ UNCHANGED <<storeVars, hist, scrapeVars, lockPath, flockOf, fd, popt, shutdown, concepts,
                   sent, held, created>>

\* Step 1, scrape_concepts, second part: the months are parsed; it raises,
\* finds nothing, or returns concepts.
Scrape(i, scraped, fails) ==
    /\ ppc[i] = "scrape"
    /\ IF fails THEN ExitRun(i, "exception") /\ UNCHANGED concepts
       ELSE IF scraped = <<>> THEN ExitRun(i, "no_concepts") /\ UNCHANGED concepts
       ELSE /\ concepts' = [concepts EXCEPT ![i] = scraped]
            /\ ppc' = [ppc EXCEPT ![i] = "check_scraped"]
            /\ UNCHANGED exit
    /\ UNCHANGED <<storeVars, hist, scrapeVars, lockPath, flockOf, fd, popt, shutdown, sent,
                   held, created, ev>>

\* Step 2, _filter_new_concepts.
Filter(i, ioerr) ==
    /\ ppc[i] = "filter"
    /\ LET new_concepts == FilterNewConcepts(concepts[i], store, ioerr)
       IN  IF new_concepts = <<>>
           THEN ExitRun(i, "nothing_new") /\ UNCHANGED concepts
           ELSE /\ concepts' = [concepts EXCEPT ![i] = new_concepts]
                /\ ppc' = [ppc EXCEPT ![i] = "check_filtered"]
                /\ UNCHANGED exit
    /\ ev' = [ev EXCEPT ![i].read_failed = GetConcepts(store, Page("", None, 0, ReadLimit), ioerr).k # "ok",
                        ![i].all_stored =
                            NotIn(concepts[i], LinksOf(store.rows)) = <<>>]
    /\ UNCHANGED <<storeVars, hist, scrapeVars, lockPath, flockOf, fd, popt, shutdown, sent,
                   held, created>>

\* Step 3, _process_with_ai when process_ai and not dry_run.
ProcessAi(i, available, atBatch, outs) ==
    /\ ppc[i] = "ai"
    /\ LET o == ProcessWithAi(concepts[i], available, atBatch, outs)
       IN  IF Invoked(i, "ai")
           THEN /\ concepts' = [concepts EXCEPT ![i] = o.concepts]
                /\ ev' = [ev EXCEPT ![i].chats = o.chats,
                                    ![i].ai = IF ~available THEN "unavailable"
                                              ELSE IF ~atBatch THEN "batch_unavailable"
                                              ELSE "done"]
           ELSE UNCHANGED <<concepts, ev>>
    /\ ppc' = [ppc EXCEPT ![i] = "check_ai"]
    /\ UNCHANGED <<storeVars, hist, scrapeVars, lockPath, flockOf, fd, popt, shutdown, exit,
                   sent, held, created>>

\* _save_concepts catching the exception of save_concepts without raising it
\* again.
PipeSaveSwallow(i) ==
    /\ ppc[i] = "save"
    /\ LET o == SaveOutcome(store, lock, concepts[i])
       IN  /\ store' = IF Invoked(i, "save") THEN o.file ELSE store
           /\ ev' = [ev EXCEPT ![i].save = IF ~Invoked(i, "save") THEN @
                                           ELSE IF o.res.k = "ok" THEN "ok"
                                           ELSE "failed"]
    /\ ppc' = [ppc EXCEPT ![i] = "check_saved"]
    /\ UNCHANGED <<lock, backups, clock, pc, op, arg, out, res, obs, hist, scrapeVars, lockPath,
                   flockOf, fd, popt, shutdown, concepts, sent, held, created, exit>>

\* Step 4, _save_concepts when not dry_run: an exception of save_concepts is
\* raised again and ends the run.
PipeSave(i) ==
    /\ ppc[i] = "save"
    /\ LET o == SaveOutcome(store, lock, concepts[i])
       IN  IF popt[i].dry_run
           THEN /\ ppc' = [ppc EXCEPT ![i] = "check_saved"]
                /\ UNCHANGED <<store, exit, ev>>
           ELSE IF o.res.k # "ok"
           THEN /\ ExitRun(i, "exception")
                /\ ev' = [ev EXCEPT ![i].save = "failed"]
                /\ UNCHANGED store
           ELSE /\ store' = o.file
                /\ ev' = [ev EXCEPT ![i].save = "ok"]
                /\ ppc' = [ppc EXCEPT ![i] = "check_saved"]
                /\ UNCHANGED exit
    /\ UNCHANGED <<lock, backups, clock, pc, op, arg, out, res, obs, hist, scrapeVars, lockPath,
                   flockOf, fd, popt, shutdown, concepts, sent, held, created>>

\* Step 5, _send_notifications when notify and not dry_run; then return True.
Notify(i, configured) ==
    /\ ppc[i] = "notify"
    /\ sent' = IF popt[i].notify /\ ~popt[i].dry_run /\ concepts[i] # <<>> /\ configured
               THEN sent \cup {concepts[i]} ELSE sent
    /\ ExitRun(i, "success")
    /\ UNCHANGED <<storeVars, hist, scrapeVars, lockPath, flockOf, fd, popt, shutdown, concepts,
                   held, created, ev>>

\* _release_lock without the unlink: the marker file is left at its path.
ReleaseKeepMarker(i) ==
    /\ ppc[i] = "release_unlink"
    /\ ppc' = [ppc EXCEPT ![i] = "idle"]
    /\ UNCHANGED <<storeVars, hist, scrapeVars, lockPath, flockOf, fd, popt, shutdown, concepts,
                   exit, sent, held, created, ev>>

\* _release_lock, from the finally clause: flock(LOCK_UN) on self.lock_file
\* and close().
ReleaseUnlock(i) ==
    /\ ppc[i] = "release"
    /\ flockOf' = [n \in Inodes |->
                      IF n = fd[i] /\ flockOf[n] = i THEN 0 ELSE flockOf[n]]
    /\ fd' = [fd EXCEPT ![i] = 0]
    /\ ppc' = [ppc EXCEPT ![i] = "release_exists"]
    /\ UNCHANGED <<storeVars, hist, scrapeVars, lockPath, popt, shutdown, concepts, exit, sent,
                   held, created, ev>>

\* _release_lock, Path(self.lock_file.name).exists(): run() returns when the
\* path names no file.
ReleaseExists(i) ==
    /\ ppc[i] = "release_exists"
    /\ ppc' = [ppc EXCEPT ![i] = IF lockPath # 0 THEN "release_unlink" ELSE "idle"]
    /\ UNCHANGED <<storeVars, hist, scrapeVars, lockPath, flockOf, fd, popt, shutdown, concepts,
                   exit, sent, held, created, ev>>

\* _release_lock, Path(self.lock_file.name).unlink(): whatever file the path
\* names is removed (the error of a path naming none is logged); run() returns.
ReleaseUnlink(i) ==
    /\ ppc[i] = "release_unlink"
    /\ lockPath' = 0
    /\ ppc' = [ppc EXCEPT ![i] = "idle"]
    /\ UNCHANGED <<storeVars, hist, scrapeVars, flockOf, fd, popt, shutdown, concepts, exit,
                   sent, held, created, ev>>

----------------------------------------------------------------------------
(* The scrapers: DianScraper and the functions of the legacy runner *)

MaxAttempts == 3
MaxMonths == 2
MaxRows == 2

\* What session.get and raise_for_status make of one request: a page, a
\* status 429, another status of 400 and above, a timeout, a connection
\* error, another RequestException.
Responses == {"200", "429", "500", "timeout", "connection", "redirects"}

\* The exception one attempt of _fetch_soup ends with, None for a page.
\* raise_for_status raises HTTPError for the status 429 as for any status of
\* 400 and above, so the test of status_code == 429 that sleeps Retry-After
\* is never reached and the except clause raises RateLimitError.
AttemptRaises(resp) ==
    CASE resp = "200" -> None
      [] resp = "429" -> "RateLimitError"
      [] resp = "redirects" -> "RequestException"
      [] OTHER -> "NetworkError"

\* retry_if_exception_type((requests.RequestException, NetworkError)).
RetryIf(exc) == exc \in {"RequestException", "NetworkError"}

\* wait_exponential(multiplier=1, min=4, max=10) after attempt n.
WaitExponential(n) ==
    LET exp == 2 ^ (n - 1)
        low == IF exp < 10 THEN exp ELSE 10
    IN  IF low > 4 THEN low ELSE 4

Event(e, r, secs) == [e |-> e, r |-> r, secs |-> secs]

\* _fetch_soup is called.
FetchSoup ==
    /\ fpc = "idle"
    /\ fpc' = "get"
    /\ attempt' = 1
    /\ fres' = "none"
    /\ flog' = <<>>
    /\ UNCHANGED <<storeVars, hist, pipeVars, site, spc, month, parsed, seen, collected,
                   net, fetched>>

\* One attempt: the page is returned; an exception that is not retried is
\* raised as it is; after the last attempt tenacity raises RetryError, the
\* decorator having no reraise=True; else tenacity waits.
Get(resp) ==
    /\ fpc = "get"
    /\ flog' = Append(flog, Event("get", resp, 0))
    /\ LET exc == AttemptRaises(resp)
       IN  IF exc = None THEN fres' = "soup" /\ fpc' = "idle"
           ELSE IF ~RetryIf(exc) THEN fres' = exc /\ fpc' = "idle"
           ELSE IF attempt >= MaxAttempts THEN fres' = "RetryError" /\ fpc' = "idle"
           ELSE fpc' = "wait" /\ UNCHANGED fres
    /\ UNCHANGED <<storeVars, hist, pipeVars, attempt, site, spc, month, parsed, seen,
                   collected, net, fetched>>

\* tenacity sleeps and starts the next attempt.
Wait ==
    /\ fpc = "wait"
    /\ flog' = Append(flog, Event("sleep", "", WaitExponential(attempt)))
    /\ attempt' = attempt + 1
    /\ fpc' = "get"
    /\ UNCHANGED <<storeVars, hist, pipeVars, fres, site, spc, month, parsed, seen,
                   collected, net, fetched>>

\* The href of the anchor of a row, as the pages write it.
Hrefs == {"/c1", "https://cijuf.org.co/c1", "/c2"}

\* urljoin(BASE_URL, href).
UrlJoin(href) == IF href = "/c2" THEN "L2" ELSE "L1"

\* The rows of a month page: the cells of the row, the href of the anchor
\* of its first cell, None when there is no anchor or no href, and the text
\* of the anchor.
Rows ==
    {[cells |-> 2, href |-> h, title |-> "T"] : h \in Hrefs}
    \cup {[cells |-> 1, href |-> "/c2", title |-> "T"],
          [cells |-> 2, href |-> None, title |-> ""],
          [cells |-> 2, href |-> "/c2", title |-> ""]}

Pages == UNION {[1..n -> Rows] : n \in 0..MaxRows}
Sites == UNION {[1..n -> Pages] : n \in 0..MaxMonths}

\* _parse_concept_row, _parse_row: the link of the concept of the row, None
\* for a row without two cells or without href. A concept stands for its link.
ParseConceptRow(row) ==
    IF row.cells < 2 \/ row.href = None THEN None ELSE UrlJoin(row.href)

\* Concept(title=..., ...) at the end of _parse_concept_row: the validator of
\* the title of the pydantic model raises for an empty title; the dataclass
\* of the legacy runner validates nothing.
ConceptRaises(row, scraper) == scraper = "dian" /\ row.title = ""

\* The loop over the rows that ends at the first row giving no concept.
RECURSIVE ParseRowsStop(_, _)
ParseRowsStop(rows, scraper) ==
    IF rows = <<>> THEN <<>>
    ELSE LET c == ParseConceptRow(Head(rows))
         IN  IF c = None \/ ConceptRaises(Head(rows), scraper) THEN <<>>
             ELSE <<c>> \o ParseRowsStop(Tail(rows), scraper)

\* The concepts of the rows of a page, in page order: a row for which
\* _parse_concept_row returns None or raises is passed over.
RECURSIVE ParseRows(_, _)
ParseRows(rows, scraper) ==
    IF rows = <<>> THEN <<>>
    ELSE LET c == ParseConceptRow(Head(rows))
         IN  (IF c = None \/ ConceptRaises(Head(rows), scraper) THEN <<>> ELSE <<c>>)
             \o ParseRows(Tail(rows), scraper)

\* The loop over the concepts with no test of the links seen.
KeepAll(links, seenLinks) == links

\* "if concept.link not in seen_links: seen_links.add(...); append(...)" over
\* the concepts of a page.
RECURSIVE Keep(_, _)
Keep(links, seenLinks) ==
    IF links = <<>> THEN <<>>
    ELSE IF Head(links) \in seenLinks THEN Keep(Tail(links), seenLinks)
    ELSE <<Head(links)>> \o Keep(Tail(links), seenLinks \cup {Head(links)})

\* settings.scraper_delay, in seconds.
ScraperDelay == 1

\* The requests of one call of _fetch_soup that makes n of them, with the
\* sleeps of tenacity between them.
RECURSIVE FetchEvents(_, _)
FetchEvents(url, n) ==
    IF n = 1 THEN <<Event("get", url, 0)>>
    ELSE FetchEvents(url, n - 1)
         \o <<Event("sleep", "retry", WaitExponential(n - 1)), Event("get", url, 0)>>

\* _fetch_full_text for each row that has two cells and an anchor with href,
\* whether its link has been seen or not.
RECURSIVE FullTextEvents(_)
FullTextEvents(rows) ==
    IF rows = <<>> THEN <<>>
    ELSE (IF ParseConceptRow(Head(rows)) = None THEN <<>>
          ELSE FetchEvents("detail", 1))
         \o FullTextEvents(Tail(rows))

\* _apply_rate_limit, which scrape_concepts of DianScraper calls after each
\* _parse_month; the legacy runner has no such call.
ApplyRateLimit(scraper) ==
    IF scraper = "dian" /\ ScraperDelay > 0
    THEN <<Event("sleep", "rate", ScraperDelay)>> ELSE <<>>

\* scrape_concepts of DianScraper, whose _seen_links is set by __init__ only,
\* or collect_concepts of the legacy runner, whose seen_links is a local. The
\* index page is requested first.
ScrapeConcepts(scraper) ==
    /\ spc = "idle"
    /\ spc' = scraper
    /\ month' = 1
    /\ parsed' = <<>>
    /\ collected' = <<>>
    /\ seen' = IF scraper = "legacy" THEN [seen EXCEPT !.legacy = {}] ELSE seen
    /\ net' = FetchEvents("index", 1)
    /\ fetched' = <<>>
    /\ UNCHANGED <<storeVars, hist, pipeVars, fpc, attempt, fres, flog, site>>

\* One turn of the loop over the months: _parse_month returns no concept when
\* its page cannot be fetched, and tests the links seen itself; parse_month
\* returns every concept of the page and collect_concepts tests the links.
\* The month page is fetched with n requests: a fetch of DianScraper fails
\* at its first request (RateLimitError) or at its last, one of the legacy
\* runner makes a single request.
ParseMonth(ok, n) ==
    /\ spc # "idle"
    /\ month <= Len(site)
    /\ IF spc = "legacy" THEN n = 1 ELSE ok \/ n \in {1, MaxAttempts}
    /\ LET rows == IF ok THEN site[month] ELSE <<>>
           new == Keep(ParseRows(rows, spc), seen[spc])
       IN  /\ parsed' = IF spc = "legacy" THEN ParseRows(rows, spc) ELSE new
           /\ collected' = collected \o new
           /\ seen' = [seen EXCEPT ![spc] = @ \cup {new[k] : k \in 1..Len(new)}]
           /\ net' = net \o FetchEvents("month", n) \o FullTextEvents(rows)
                         \o ApplyRateLimit(spc)
    /\ fetched' = Append(fetched, ok)
    /\ month' = month + 1
    /\ UNCHANGED <<storeVars, hist, pipeVars, fpc, attempt, fres, flog, site, spc>>

\* The scrape returns the concepts collected.
ReturnScrape ==
    /\ spc # "idle"
    /\ month > Len(site)
    /\ spc' = "idle"
    /\ UNCHANGED <<storeVars, hist, pipeVars, fpc, attempt, fres, flog, site, month,
                   parsed, seen, collected, net, fetched>>

\* No call of _fetch_soup running, no scrape running, a scraper just made.
InitScrape(pages) ==
    /\ fpc = "idle"
    /\ attempt = 0
    /\ fres = "none"
    /\ flog = <<>>
    /\ site = pages
    /\ spc = "idle"
    /\ month = 1
    /\ parsed = <<>>
    /\ seen = [dian |-> {}, legacy |-> {}]
    /\ collected = <<>>
    /\ net = <<>>
    /\ fetched = <<>>

----------------------------------------------------------------------------
(* Initial state: no store file, no marker, no backup, every client idle,   *)
(* no pipeline instance running.                                            *)

InitStore ==
    /\ store = NoFile
    /\ lock = FALSE
    /\ backups = [t \in Seconds |-> NoFile]
    /\ clock = 0
    /\ pc = [p \in Clients |-> "idle"]
    /\ op = [p \in Clients |-> "none"]
    /\ arg = [p \in Clients |-> NoArg]
    /\ out = [p \in Clients |-> <<>>]
    /\ res = [p \in Clients |-> NoRes]
    /\ obs = [p \in Clients |-> NoFile]

InitPipe ==
    /\ lockPath = 0
    /\ flockOf = [n \in Inodes |-> 0]
    /\ fd = [i \in Instances |-> 0]
    /\ ppc = [i \in Instances |-> "idle"]
    /\ popt = [i \in Instances |-> [dry_run |-> FALSE, notify |-> TRUE, process_ai |-> TRUE]]
    /\ shutdown = [i \in Instances |-> FALSE]
    /\ concepts = [i \in Instances |-> <<>>]
    /\ exit = [i \in Instances |-> "none"]
    /\ sent = {}
    /\ held = [i \in Instances |-> 0]
    /\ created = 0
    /\ ev = [i \in Instances |-> NoEv]

\* One client calling the store's operations one after the other, with the
\* legacy runner as the way the store file gets its records.
Client == 1

InitSeq == InitStore /\ InitPipe /\ InitScrape(<<>>) /\ hist = [on |-> TRUE, calls |-> <<>>]

IoFaults == {"none", "read", "write"}

NextSeq ==
    \/ \E b \in Batches, io \in {"none", "read"} : SaveConcepts(Client, b, io)
    \/ \E l \in Links : DeleteConcept(Client, l, "none")
    \/ \E l \in Links : CallGetConceptById(Client, l, "none")
    \/ \E s \in Scrapes, io \in {"none", "read"} : LegacyMain(Client, s, io)
    \/ Return(Client)
    \/ AcquireLock(Client)
    \/ TouchLock(Client)
    \/ SaveBody(Client)
    \/ DeleteBody(Client)
    \/ SaveDataframe(Client)
    \/ ReleaseLock(Client)
    \/ GetConceptById(Client)
    \/ LegacyLoad(Client)
    \/ LegacyOpen(Client)
    \/ LegacyWrite(Client)

SpecSeq == InitSeq /\ [][NextSeq]_vars

\* The sequential client backing up, clearing and restoring a store that the
\* legacy runner filled, while time passes.
NextBackup ==
    \/ \E s \in Scrapes : LegacyMain(Client, s, "none")
    \/ ClearAll(Client, "none")
    \/ CallBackup(Client)
    \/ \E t \in Seconds : CallRestore(Client, t)
    \/ Return(Client)
    \/ LegacyLoad(Client)
    \/ LegacyOpen(Client)
    \/ LegacyWrite(Client)
    \/ AcquireLock(Client)
    \/ TouchLock(Client)
    \/ ClearBody(Client)
    \/ SaveDataframe(Client)
    \/ ReleaseLock(Client)
    \/ Backup(Client)
    \/ RestoreBackup(Client)
    \/ RestoreOpen(Client)
    \/ RestoreWrite(Client)
    \/ Tick

SpecBackup == InitSeq /\ [][NextBackup]_vars

\* The sequential client calling every operation of the store, any file
\* access possibly failing; no history is kept.
InitOps == InitStore /\ InitPipe /\ InitScrape(<<>>) /\ hist = [on |-> FALSE, calls |-> <<>>]

NextOps ==
    \/ \E b \in Batches \cup {<<cA2, cB>>}, io \in IoFaults : SaveConcepts(Client, b, io)
    \/ \E l \in Links, io \in IoFaults : DeleteConcept(Client, l, io)
    \/ \E io \in IoFaults : ClearAll(Client, io)
    \/ \E l \in Links, io \in IoFaults : CallGetConceptById(Client, l, io)
    \/ \E s \in Scrapes, io \in IoFaults : LegacyMain(Client, s, io)
    \/ CallBackup(Client)
    \/ \E t \in Seconds : CallRestore(Client, t)
    \/ Return(Client)
    \/ AcquireLock(Client)
    \/ TouchLock(Client)
    \/ SaveBody(Client)
    \/ DeleteBody(Client)
    \/ ClearBody(Client)
    \/ SaveDataframe(Client)
    \/ ReleaseLock(Client)
    \/ GetConceptById(Client)
    \/ LegacyLoad(Client)
    \/ LegacyOpen(Client)
    \/ LegacyWrite(Client)
    \/ Backup(Client)
    \/ RestoreBackup(Client)
    \/ RestoreOpen(Client)
    \/ RestoreWrite(Client)
    \/ Tick

SpecOps == InitOps /\ [][NextOps]_vars

\* Two processes calling the mutating operations of the store on the same
\* store file, their steps interleaved; the legacy runner fills the file.
NextConc ==
    \/ \E p \in Clients, b \in Batches : SaveConcepts(p, b, "none")
    \/ \E p \in Clients, l \in Links : DeleteConcept(p, l, "none")
    \/ \E p \in Clients : ClearAll(p, "none")
    \/ \E s \in Scrapes : LegacyMain(Client, s, "none")
    \/ \E p \in Clients : Return(p)
    \/ \E p \in Clients : AcquireLock(p)
    \/ \E p \in Clients : TouchLock(p)
    \/ \E p \in Clients : SaveBody(p)
    \/ \E p \in Clients : DeleteBody(p)
    \/ \E p \in Clients : ClearBody(p)
    \/ \E p \in Clients : SaveDataframe(p)
    \/ \E p \in Clients : ReleaseLock(p)
    \/ LegacyLoad(Client)
    \/ LegacyOpen(Client)
    \/ LegacyWrite(Client)

SpecConc == InitOps /\ [][NextConc]_vars

\* Two processes calling the operations that take the lock, either of which
\* may end while it holds it.
NextCrash ==
    \/ \E p \in Clients : SaveConcepts(p, <<cA>>, "none")
    \/ \E p \in Clients, l \in Links : DeleteConcept(p, l, "none")
    \/ \E p \in Clients : ClearAll(p, "none")
    \/ \E p \in Clients : AcquireLock(p)
    \/ \E p \in Clients : TouchLock(p)
    \/ \E p \in Clients : SaveBody(p)
    \/ \E p \in Clients : DeleteBody(p)
    \/ \E p \in Clients : ClearBody(p)
    \/ \E p \in Clients : SaveDataframe(p)
    \/ \E p \in Clients : ReleaseLock(p)
    \/ \E p \in Clients : Crash(p)

SpecCrash == InitOps /\ [][NextCrash]_vars

\* A process modifying the store file while another one queries it.
Reader == 2

NextRW ==
    \/ \E b \in Batches : SaveConcepts(Client, b, "none")
    \/ \E l \in Links : DeleteConcept(Client, l, "none")
    \/ ClearAll(Client, "none")
    \/ \E s \in Scrapes : LegacyMain(Client, s, "none")
    \/ CallBackup(Client)
    \/ \E t \in Seconds : CallRestore(Client, t)
    \/ \E l \in Links : CallGetConceptById(Reader, l, "none")
    \/ Return(Client)
    \/ AcquireLock(Client)
    \/ TouchLock(Client)
    \/ SaveBody(Client)
    \/ DeleteBody(Client)
    \/ ClearBody(Client)
    \/ SaveDataframe(Client)
    \/ ReleaseLock(Client)
    \/ LegacyLoad(Client)
    \/ LegacyOpen(Client)
    \/ LegacyWrite(Client)
    \/ Backup(Client)
    \/ RestoreBackup(Client)
    \/ RestoreOpen(Client)
    \/ RestoreWrite(Client)
    \/ GetConceptById(Reader)

SpecRW == InitOps /\ [][NextRW]_vars

\* Independent pipeline processes running against the same data directory;
\* what they scrape and whether the collaborators answer varies little here.
NextPipe ==
    \/ \E i \in Instances, o \in RunOptions : Run(i, o)
    \/ \E i \in Instances : Shutdown(i)
    \/ \E i \in Instances : AcquireOpen(i)
    \/ \E i \in Instances : AcquireFlock(i)
    \/ \E i \in Instances : CheckShutdown(i)
    \/ \E i \in Instances, found \in BOOLEAN : Discover(i, found)
    \/ \E i \in Instances, s \in {<<>>, <<cB>>}, fails \in BOOLEAN : Scrape(i, s, fails)
    \/ \E i \in Instances : Filter(i, FALSE)
    \/ \E i \in Instances : ProcessAi(i, TRUE, TRUE, [k \in 1..2 |-> AllOk])
    \/ \E i \in Instances : PipeSave(i)
    \/ \E i \in Instances : Notify(i, TRUE)
    \/ \E i \in Instances : ReleaseUnlock(i)
    \/ \E i \in Instances : ReleaseExists(i)
    \/ \E i \in Instances : ReleaseUnlink(i)

SpecPipe == InitOps /\ [][NextPipe]_vars

\* One pipeline process, with everything its collaborators can answer, on a
\* store file that the legacy runner fills.
Runner == 1

NextRun ==
    \/ \E s \in Scrapes : LegacyMain(Client, s, "none")
    \/ LegacyLoad(Client)
    \/ LegacyOpen(Client)
    \/ LegacyWrite(Client)
    \/ Return(Client)
    \/ \E o \in RunOptions : Run(Runner, o)
    \/ Shutdown(Runner)
    \/ AcquireOpen(Runner)
    \/ AcquireFlock(Runner)
    \/ CheckShutdown(Runner)
    \/ \E found \in BOOLEAN : Discover(Runner, found)
    \/ \E s \in Scrapes, fails \in BOOLEAN : Scrape(Runner, s, fails)
    \/ \E ioerr \in BOOLEAN : Filter(Runner, ioerr)
    \/ \E available, atBatch \in BOOLEAN, outs \in AiBatches :
          ProcessAi(Runner, available, atBatch, outs)
    \/ PipeSave(Runner)
    \/ \E configured \in BOOLEAN : Notify(Runner, configured)
    \/ ReleaseUnlock(Runner)
    \/ ReleaseExists(Runner)
    \/ ReleaseUnlink(Runner)

SpecRun == InitOps /\ [][NextRun]_vars

\* One pipeline process on an absent store file; a run starts while the
\* model has an inode left for its lock file.
NextTerm ==
    \/ \E o \in RunOptions : created < MaxInodes /\ Run(Runner, o)
    \/ Shutdown(Runner)
    \/ AcquireOpen(Runner)
    \/ AcquireFlock(Runner)
    \/ CheckShutdown(Runner)
    \/ \E found \in BOOLEAN : Discover(Runner, found)
    \/ \E s \in {<<>>, <<cA>>}, fails \in BOOLEAN : Scrape(Runner, s, fails)
    \/ \E ioerr \in BOOLEAN : Filter(Runner, ioerr)
    \/ \E available, atBatch \in BOOLEAN :
          ProcessAi(Runner, available, atBatch, [k \in 1..2 |-> AllOk])
    \/ PipeSave(Runner)
    \/ \E configured \in BOOLEAN : Notify(Runner, configured)
    \/ ReleaseUnlock(Runner)
    \/ ReleaseExists(Runner)
    \/ ReleaseUnlink(Runner)

\* The steps of a run that the code bounds in time: flock is called with
\* LOCK_NB, session.get with timeout=scraper_timeout and at most three times a
\* page, the store is a local file. ollama.Client is made without a timeout
\* (settings.ollama_timeout is read nowhere) and smtplib.SMTP without one:
\* nothing bounds the calls of the AI processor and of the email service.
Progress(i) ==
    \/ AcquireOpen(i)
    \/ AcquireFlock(i)
    \/ CheckShutdown(i)
    \/ \E found \in BOOLEAN : Discover(i, found)
    \/ \E s \in {<<>>, <<cA>>}, fails \in BOOLEAN : Scrape(i, s, fails)
    \/ \E ioerr \in BOOLEAN : Filter(i, ioerr)
    \/ /\ ~Invoked(i, "ai")
       /\ ProcessAi(i, TRUE, TRUE, [k \in 1..2 |-> AllOk])
    \/ PipeSave(i)
    \/ /\ ~Invoked(i, "notify")
       /\ Notify(i, TRUE)
    \/ ReleaseUnlock(i)
    \/ ReleaseExists(i)
    \/ ReleaseUnlink(i)

SpecTerm == InitOps /\ [][NextTerm]_vars /\ WF_vars(Progress(Runner))

\* The sequential client querying the store between runs of the legacy
\* runner, a read of the store file possibly failing.
NextQuery ==
    \/ \E s \in Scrapes : LegacyMain(Client, s, "none")
    \/ LegacyLoad(Client)
    \/ LegacyOpen(Client)
    \/ LegacyWrite(Client)
    \/ Return(Client)
    \/ \E o \in {"search", "get_concepts"}, query \in {"iva", "t1"},
          theme \in {None, "iva"}, offset \in 0..1, limit \in 1..2, io \in {"none", "read"} :
          CallQuery(Client, o, Page(query, theme, offset, limit), "", io)
    \/ \E o \in {"count", "themes"}, io \in {"none", "read"} :
          CallQuery(Client, o, Page("", None, 0, 0), "", io)
    \/ \E limit \in 1..2, io \in {"none", "read"} :
          CallQuery(Client, "latest", Page("", None, 0, limit), "", io)
    \/ \E l \in Links, io \in {"none", "read"} :
          CallQuery(Client, "exists", Page("", None, 0, 0), l, io)
    \/ RunQuery(Client)

SpecQuery == InitOps /\ [][NextQuery]_vars

\* One call of _fetch_soup after the other, the server answering anything.
NextFetch ==
    \/ FetchSoup
    \/ \E resp \in Responses : Get(resp)
    \/ Wait

SpecFetch == InitOps /\ [][NextFetch]_vars

\* A DianScraper object and the legacy runner scraping a site again and
\* again, any month page possibly failing to be fetched.
InitSites ==
    /\ InitStore /\ InitPipe /\ hist = [on |-> FALSE, calls |-> <<>>]
    /\ \E pages \in Sites : InitScrape(pages)

NextScrape ==
    \/ \E scraper \in {"dian", "legacy"} : ScrapeConcepts(scraper)
    \/ \E ok \in BOOLEAN, n \in 1..MaxAttempts : ParseMonth(ok, n)
    \/ ReturnScrape

SpecScrape == InitSites /\ [][NextScrape]_vars

----------------------------------------------------------------------------
(* Claims about the sequential client (SpecSeq) *)

Prev == hist.calls[Len(hist.calls)]
HasPrev == hist.calls # <<>>

\* The client's last call has returned, and it was operation o.
Returned(o) == Idle(Client) /\ op[Client] = o

\* Two concepts equal in every field of the data model, the date compared
\* at day granularity.
SameConcept(x, y) == [x EXCEPT !.date.tod = 0] = [y EXCEPT !.date.tod = 0]

\* C5: after save([c]) followed by save([c2]) with c2.link = c.link (no file
\* access failing), the store holds exactly one record with that link, with
\* the field values of c2; and saving the same concept twice leaves the store
\* as it was after the first save.
C5_IdempotentMerge ==
    \A c, c2 \in Concepts :
        ( /\ Returned("save") /\ arg[Client].batch = <<c2>>
          /\ HasPrev /\ Prev.op = "save" /\ Prev.arg.batch = <<c>>
          /\ arg[Client].io = "none" /\ Prev.arg.io = "none"
          /\ c.link = c2.link )
        => /\ WithLink(store.rows, c2.link) = <<ToRecord(c2)>>
           /\ (c = c2 => store = Prev.post)

\* C8: every link in the store when a run of the legacy runner starts is
\* still in the store when the run has ended, also when the run's read of the
\* store failed.
C8_RunKeepsRecords ==
    Returned("legacy") => arg[Client].pre \subseteq LinksOf(store.rows)

\* C9: after save([c]), get_concept_by_id(c.link) returns a concept equal to
\* c in every field of the data model.
C9_RoundTrip ==
    \A c \in Concepts :
        ( /\ Returned("get_by_id") /\ arg[Client].link = c.link
          /\ HasPrev /\ Prev.op = "save" /\ Prev.arg.batch = <<c>>
          /\ arg[Client].io = "none" /\ Prev.arg.io = "none" )
        => /\ res[Client].k = "ok"
           /\ Len(res[Client].c) = 1
           /\ SameConcept(res[Client].c[1], c)

\* C10: backup() returning path p, then clear_all(), then restore(p) leaves
\* the store file as it was when the backup was taken, however little time
\* passes between the calls.
C10_BackupRestore ==
    ( /\ Returned("restore")
      /\ Len(hist.calls) = 2
      /\ hist.calls[1].op = "backup" /\ hist.calls[1].res.k = "ok"
      /\ hist.calls[2].op = "clear_all" /\ hist.calls[2].res.k = "ok"
      /\ arg[Client].path = hist.calls[1].res.n )
    => /\ res[Client].k = "ok"
       /\ store = hist.calls[1].post

----------------------------------------------------------------------------
(* Claims about every operation of the store (SpecOps) *)

NoDuplicateLinks(rows) ==
    \A i, j \in 1..Len(rows) : i # j => rows[i].link # rows[j].link

----------------------------------------------------------------------------
(* Claims about processes sharing the store file (SpecConc, SpecRW) *)

\* Between a successful _acquire_lock and the end of _release_lock.
Holding(p) == pc[p] \in {"body", "save_df", "release"}

\* C1: at most one process at a time is between a successful lock
\* acquisition and its lock release.
C1_MutualExclusion == \A p, q \in Clients : Holding(p) /\ Holding(q) => p = q

\* The first step of a save_concepts call, taken while the marker exists.
SaveStepLocked(p) ==
    /\ op[p] = "save"
    /\ pc[p] \in {"return", "acquire"}
    /\ lock
    /\ pc'[p] # pc[p]

\* The step ends the call with the locked error, the store file and the
\* marker being left as they were.
FailsLocked(p) ==
    /\ pc'[p] = "idle"
    /\ res'[p] = Raise(RepositoryLocked)
    /\ store' = store
    /\ lock' = lock

\* C2 as stated: any save attempted while the marker exists fails at once
\* with the locked error, changing neither the store file nor the marker.
C2_SaveWhileLocked ==
    [][\A p \in Clients : SaveStepLocked(p) => FailsLocked(p)]_vars

\* C2, amended: a save of a non-empty batch attempted while the marker exists
\* fails at once with the locked error, changing neither the store file nor
\* the marker.
C2_NonEmptySaveWhileLocked ==
    [][\A p \in Clients :
          SaveStepLocked(p) /\ arg[p].batch # <<>> => FailsLocked(p)]_vars

\* A save has failed with the locked error while the other process holds the
\* lock, whose marker is still there.
C2_Witness ==
    \E p, q \in Clients :
        /\ p # q
        /\ Idle(p) /\ op[p] = "save" /\ res[p] = Raise(RepositoryLocked)
        /\ Holding(q) /\ lock

\* C7: what a query reads of the store file is a complete dataset, never a
\* file whose writing is under way.
C7_CompleteRead == Idle(Reader) /\ op[Reader] = "get_by_id" => obs[Reader] # ZeroByte

----------------------------------------------------------------------------
(* Claims about the pipeline's lock (SpecPipe) *)

\* C3: at most one pipeline instance at a time is past the acquisition of
\* the lock and executing stages.
C3_OneRunning == \A i, j \in Instances : Running(i) /\ Running(j) => i = j

\* C4: once run() has returned, whichever way it ended, the lock this run
\* acquired is released, its lock file closed and no longer at the marker's
\* path.
C4_LockReleased ==
    \A i \in Instances :
        ppc[i] = "idle" /\ held[i] # 0
        => /\ flockOf[held[i]] # i
           /\ fd[i] = 0
           /\ lockPath # held[i]

\* A run that had acquired the lock has returned after an exception, one
\* after a shutdown request.
C4_Witness ==
    \E i, j \in Instances :
        /\ ppc[i] = "idle" /\ held[i] # 0 /\ exit[i] = "exception"
        /\ ppc[j] = "idle" /\ held[j] # 0 /\ exit[j] = "aborted"

----------------------------------------------------------------------------
(* Claims about one run of the pipeline (SpecRun) *)

\* The stages a run has started.
Stages(i) == {ev[i].started[k] : k \in 1..Len(ev[i].started)}

\* The step in which _filter_new_concepts returns, the store having been read.
FilterStep(i) ==
    /\ ppc[i] = "filter"
    /\ ppc'[i] # "filter"
    /\ ~ev'[i].read_failed

\* C11: filtering returns exactly the scraped concepts whose link is not
\* among the links of the records of the store file; an empty result ends
\* the run.
C11_FilterExact ==
    [][FilterStep(Runner) =>
          LET new == NotIn(concepts[Runner], LinksOf(store.rows))
          IN  IF new = <<>> THEN exit'[Runner] = "nothing_new"
              ELSE concepts'[Runner] = new /\ ppc'[Runner] = "check_filtered"]_vars

\* C12: once a run has saved what it scraped, a run that scrapes the same
\* input finds nothing new at its filter and ends there, saving and
\* notifying nothing.
C12_SecondRunNothingNew ==
    [][( /\ FilterStep(Runner)
         /\ Idle(Client) /\ op[Client] = "legacy" /\ res[Client] = Ok
         /\ arg[Client].scraped = concepts[Runner]
         /\ LinksOf(ToCsv(NewFrame(concepts[Runner])).rows) \subseteq LinksOf(store.rows) )
       => exit'[Runner] = "nothing_new"]_vars

\* C13: when no scraped concept is new to the store, the run starts neither
\* Saving nor Notifying, and returns success.
C13_NothingNewNoEffects ==
    ev[Runner].all_stored /\ ~ev[Runner].read_failed
    => /\ "Saving" \notin Stages(Runner)
       /\ "Notifying" \notin Stages(Runner)
       /\ ( ppc[Runner] = "idle" /\ ~shutdown[Runner]
            => exit[Runner] \in {"nothing_new", "success"} )

StageOrd ==
    [AcquiringLock |-> 1, Discovering |-> 2, Parsing |-> 3, Filtering |-> 4,
     Enriching |-> 5, Saving |-> 6, Notifying |-> 7]

\* C14: the stages of a run start in the order AcquiringLock, Discovering,
\* Parsing, Filtering, Enriching, Saving, Notifying, none of the first four
\* being skipped; Saving starts only with a non-empty filtered set, and
\* Notifying only after the save of the same run succeeded.
C14_StageOrder ==
    LET s == ev[Runner].started
    IN  /\ \A a, b \in 1..Len(s) : a < b => StageOrd[s[a]] < StageOrd[s[b]]
        /\ \A k \in 1..Len(s) : k <= 4 => StageOrd[s[k]] = k
        /\ "Saving" \in Stages(Runner)
           => "Filtering" \in Stages(Runner) /\ concepts[Runner] # <<>>
        /\ "Notifying" \in Stages(Runner) => ev[Runner].save = "ok"

\* A run has started every stage up to Saving and has returned.
C14_Witness ==
    /\ ev[Runner].started = <<"AcquiringLock", "Discovering", "Parsing",
                              "Filtering", "Enriching", "Saving">>
    /\ ppc[Runner] = "idle"

\* C15: once the shutdown flag is set no further stage of the run starts,
\* and the next shutdown check ends the run as aborted.
C15_NoStartAfterShutdown ==
    [][shutdown[Runner] /\ ppc[Runner] # "idle"
       => /\ ev'[Runner].started = ev[Runner].started
          /\ ( ppc[Runner] \in DOMAIN NextStage /\ ppc'[Runner] # ppc[Runner]
               => exit'[Runner] = "aborted" )]_vars

ReleasePcs == {"release", "release_exists", "release_unlink", "idle"}

\* C17: when save_concepts fails the run ends as failed: Saving was started
\* once, Notifying is not started, and only the release of the lock follows.
C17_SaveFailureFatal ==
    ev[Runner].save = "failed"
    => /\ exit[Runner] = "exception"
       /\ ppc[Runner] \in ReleasePcs
       /\ "Notifying" \notin Stages(Runner)
       /\ Cardinality({k \in 1..Len(ev[Runner].started) :
                          ev[Runner].started[k] = "Saving"}) = 1

\* A run whose save failed has returned.
C17_Witness ==
    /\ ev[Runner].save = "failed"
    /\ ppc[Runner] = "idle"
    /\ exit[Runner] = "exception"

\* C18: when reading the store fails in the filter the run ends as failed,
\* and nothing is enriched, saved or notified.
C18_ReadFailureFatal ==
    ev[Runner].read_failed
    => /\ exit[Runner] = "exception"
       /\ Stages(Runner) \cap {"Enriching", "Saving", "Notifying"} = {}

\* C20: when the AI collaborator is unavailable at the start of the batch,
\* the concepts come back as they were, in the same order, no chat call is
\* made and no exception ends the run.
C20_UnavailableBatch ==
    [][ppc[Runner] = "ai" /\ ev'[Runner].ai = "batch_unavailable"
       => /\ concepts'[Runner] = concepts[Runner]
          /\ ev'[Runner].chats = 0
          /\ ppc'[Runner] = "check_ai"
          /\ exit'[Runner] = exit[Runner]]_vars

\* process_concepts_batch has returned a batch of two concepts, one of them
\* without summary, the collaborator being unavailable at its start.
C20_Witness ==
    /\ ev[Runner].ai = "batch_unavailable"
    /\ ppc[Runner] = "check_ai"
    /\ \E s \in Scrapes : Len(s) = 2 /\ concepts[Runner] = s

----------------------------------------------------------------------------
(* Claims about a run finding the lock held (SpecPipe) *)

----------------------------------------------------------------------------
(* Claims about the AI collaborator failing inside a batch (SpecRun) *)

SummaryTexts ==
    {"Resumen", "", "No hay contenido para resumir.",
     "Resumen no disponible: Ollama no configurado.",
     "Resumen no disponible por error en Ollama."}

AnalysisTexts ==
    {"Analisis", "Analisis no disponible.",
     "Analisis no disponible: Ollama no configurado.",
     "Analisis no disponible por error en Ollama."}

\* The concepts d are the concepts c, summary and analysis apart.
SameButAi(c, d) ==
    /\ Len(d) = Len(c)
    /\ \A k \in 1..Len(c) :
          [d[k] EXCEPT !.summary = None, !.analysis = None]
          = [c[k] EXCEPT !.summary = None, !.analysis = None]

\* C21: whatever the AI collaborator does on the concepts of a batch, the
\* step ends with the same concepts in the same order, each one processed
\* carrying a text as summary and as analysis, the run does not end there,
\* and, no shutdown being asked for, it goes on to Saving with those concepts.
C21_AiFailureTolerated ==
    [][ /\ ( ppc[Runner] = "ai" /\ ppc'[Runner] # "ai" )
           => /\ ppc'[Runner] = "check_ai"
              /\ exit'[Runner] = exit[Runner]
              /\ SameButAi(concepts[Runner], concepts'[Runner])
              /\ ev'[Runner].ai = "done"
                 => \A k \in 1..Len(concepts'[Runner]) :
                       /\ concepts'[Runner][k].summary \in SummaryTexts
                       /\ concepts'[Runner][k].analysis \in AnalysisTexts
        /\ ( ppc[Runner] = "check_ai" /\ ~shutdown[Runner] /\ ppc'[Runner] # "check_ai" )
           => /\ ppc'[Runner] = "save"
              /\ concepts'[Runner] = concepts[Runner]
              /\ ~popt[Runner].dry_run => "Saving" \in Stages(Runner)' ]_vars

\* A batch of two concepts is about to be saved: client.chat raised for the
\* summary of the first one, and the collaborator was no longer available
\* for the analysis of the second one.
C21_Witness ==
    /\ ppc[Runner] = "save"
    /\ "Saving" \in Stages(Runner)
    /\ ev[Runner].ai = "done"
    /\ Len(concepts[Runner]) = 2
    /\ concepts[Runner][1].summary = "Resumen no disponible por error en Ollama."
    /\ concepts[Runner][2].analysis = "Analisis no disponible: Ollama no configurado."

----------------------------------------------------------------------------
(* Claims about one call of _fetch_soup (SpecFetch) *)

\* The responses to the requests of the call, in their order.
Gets == SelectSeq(flog, LAMBDA x : x.e = "get")

\* A call of _fetch_soup has returned or raised.
Fetched == fpc = "idle" /\ fres # "none"

\* C22: a call of _fetch_soup makes at most 3 requests and returns the first
\* page it gets; after a timeout or a connection error it gives up only at
\* the third attempt, and then with NetworkError.
C22_ThreeAttempts ==
    Fetched =>
        /\ Len(Gets) <= MaxAttempts
        /\ Gets[Len(Gets)].r = "200" => fres = "soup"
        /\ Gets[Len(Gets)].r \in {"timeout", "connection"}
           => Len(Gets) = MaxAttempts /\ fres = "NetworkError"

\* C30: a response 429 to the first or to the second request of a call is
\* followed by a sleep and by another request.
C30_RetryAfter429 ==
    Fetched =>
        \A k \in 1..Len(flog) :
            ( /\ flog[k].r = "429"
              /\ Len(SelectSeq(SubSeq(flog, 1, k), LAMBDA x : x.e = "get")) < MaxAttempts )
            => k < Len(flog) /\ flog[k + 1].e = "sleep"

\* C31: a response with a status of 400 and above other than 429 ends the
\* call at once: the request is not made again, nothing follows it in the
\* call, which raises HttpError.
C31_HttpErrorOnce ==
    \A k \in 1..Len(flog) :
        flog[k].e = "get" /\ flog[k].r = "500"
        => /\ fpc = "idle"
           /\ k = Len(flog)
           /\ fres = "HttpError"

----------------------------------------------------------------------------
(* Claims about one scrape (SpecScrape) *)

\* C23: no link occurs twice among the concepts a scrape collects.
C23_LinkOnce ==
    \A a, b \in 1..Len(collected) : a < b => collected[a] # collected[b]

\* A scrape has returned two concepts from a site whose first month page
\* lists one link twice and whose second page lists that link again.
C23_Witness ==
    /\ spc = "idle"
    /\ Len(site) = 2
    /\ site[1] = <<[cells |-> 2, href |-> "/c1", title |-> "T"],
                   [cells |-> 2, href |-> "https://cijuf.org.co/c1", title |-> "T"]>>
    /\ site[2] = <<[cells |-> 2, href |-> "/c1", title |-> "T"],
                   [cells |-> 2, href |-> "/c2", title |-> "T"]>>
    /\ collected = <<"L1", "L2">>

----------------------------------------------------------------------------
(* Claims about the order of the store file (SpecOps) *)

----------------------------------------------------------------------------
(* Claims about the queries of the store (SpecQuery) *)

LinkSeq(cs) == [k \in 1..Len(cs) |-> cs[k].link]

\* C25: search_concepts returns as total the number of the records matching
\* the query and the filters, as concepts the records at offset ..
\* offset + limit - 1 of those, and has_more set exactly when offset plus the
\* number of concepts returned is less than total.
C25_SearchPage ==
    Returned("search") /\ arg[Client].io = "none" =>
        LET pg == arg[Client].page
            hits == Filtered(ReadCsv(store), pg, TRUE)
        IN  /\ res[Client].k = "ok"
            /\ res[Client].n = Len(hits)
            /\ LinkSeq(res[Client].c) = LinkSeq(Iloc(hits, pg.offset, pg.limit))
            /\ res[Client].b = (pg.offset + Len(res[Client].c) < res[Client].n)

\* C26: get_concepts(limit, offset) returns the records at offset ..
\* offset + limit - 1 of the records passing the filter, taken in the order
\* of theme ascending, date descending.
C26_GetAllPage ==
    Returned("get_concepts") /\ arg[Client].io = "none" =>
        LET pg == arg[Client].page
            hits == SortValues(Filtered(ReadCsv(store), pg, FALSE))
        IN  /\ res[Client].k = "ok"
            /\ LinkSeq(res[Client].c) = LinkSeq(Iloc(hits, pg.offset, pg.limit))

----------------------------------------------------------------------------
(* Claims about delete_concept (SpecSeq) *)

\* C27: delete_concept(link), no file access failing, on a store holding a
\* record with that link returns True and leaves the store with the same
\* records in the same order but that one; on a store without it (empty or
\* absent included) it returns False and leaves the store file as it was;
\* either way the lock marker is gone when the call has returned.
C27_DeleteExact ==
    Returned("delete") /\ arg[Client].io = "none" =>
        LET before == Prev.post
            l == arg[Client].link
        IN  /\ ~lock
            /\ res[Client].k = "ok"
            /\ IF l \in LinksOf(before.rows)
               THEN /\ res[Client].b
                    /\ store = CsvFile(SelectSeq(before.rows, LAMBDA r : r.link # l))
               ELSE /\ ~res[Client].b
                    /\ store = before

\* A delete has removed one of the two records of the store.
C27_Witness ==
    /\ Returned("delete") /\ arg[Client].io = "none"
    /\ res[Client].b
    /\ Len(Prev.post.rows) = 2
    /\ Len(store.rows) = 1

----------------------------------------------------------------------------
(* Claims about the lock around the writes of the store file (SpecOps) *)

\* The interval of an operation from its read of the store file to the end
\* of its rewrite; for restore, the copy of the backup file over the store
\* file.
Rewriting(p) ==
    \/ op[p] \in {"save", "delete", "clear_all"} /\ pc[p] \in {"body", "save_df"}
    \/ op[p] = "restore" /\ pc[p] \in {"copy_open", "copy_write"}

\* C28: save_concepts, delete_concept, clear_all and restore have the lock
\* marker in place during the whole interval in which they read and rewrite
\* the store file.
C28_LockedWhileWriting == \A p \in Clients : Rewriting(p) => lock

----------------------------------------------------------------------------
(* Claims about a failing save_concepts (SpecSeq) *)

\* C29: when save_concepts fails after it has acquired the lock, the store
\* file is as it was before the call, the exception raised is
\* RepositoryError, and the lock marker is gone.
C29_FailedSaveClean ==
    Returned("save") /\ res[Client].k \notin {"ok", RepositoryLocked} =>
        /\ store = Prev.post
        /\ ~lock
        /\ res[Client].k = RepositoryError

----------------------------------------------------------------------------
(* Claims about the requests of one scrape (SpecScrape) *)

\* C32: in a scrape of DianScraper every request that is followed by another
\* one is followed first by a sleep of at least the configured delay.
C32_DelayBetweenRequests ==
    spc = "dian" =>
        \A k \in 1..(Len(net) - 1) :
            net[k].e = "get"
            => net[k + 1].e = "sleep" /\ net[k + 1].secs >= ScraperDelay

----------------------------------------------------------------------------
(* Claims about the rows of a month page (SpecScrape) *)

\* A row with at least two cells and an anchor with an href in the first.
ValidRow(row) == row.cells >= 2 /\ row.href # None

LinksIn(rows) == [k \in 1..Len(rows) |-> UrlJoin(rows[k].href)]

\* The step in which _parse_month / parse_month is called for a month page
\* and returns.
MonthStep == spc # "idle" /\ month' = month + 1

----------------------------------------------------------------------------
(* Claims about successive scrapes of one scraper (SpecScrape) *)

\* The links of the rows of the month pages that give a concept in
\* DianScraper.
SiteLinks ==
    UNION {{UrlJoin(site[m][k].href) : k \in {j \in 1..Len(site[m]) :
                ValidRow(site[m][j]) /\ site[m][j].title # ""}} : m \in 1..Len(site)}

\* C39: every scrape_concepts call of a DianScraper whose month pages could
\* all be fetched returns the links of the rows of these pages, the first
\* call of the instance and the calls after it alike: two successive calls
\* over the same pages return the same set of links.
C39_SameLinksEachScrape ==
    [][( /\ spc = "dian" /\ spc' = "idle"
         /\ \A m \in 1..Len(fetched) : fetched[m] )
       => {collected[k] : k \in 1..Len(collected)} = SiteLinks]_vars

----------------------------------------------------------------------------
(* Claims about the marker of a process that has ended (SpecCrash) *)

\* C34: once a process has ended while holding the lock, the marker stays,
\* and every save_concepts of a non-empty batch, delete_concept and clear_all
\* that comes to _acquire_lock fails there with the locked error.
C34_StaleLockStays ==
    [][(\E p \in Clients : pc[p] = "crashed") =>
          /\ lock'
          /\ \A q \in Clients :
                pc[q] = "acquire" /\ pc'[q] # "acquire"
                => pc'[q] = "idle" /\ res'[q] = Raise(RepositoryLocked)]_vars

----------------------------------------------------------------------------
(* Claims about the end of a run (SpecTerm) *)

\* C35: a run that has started returns.
C35_RunTerminates == ppc[Runner] # "idle" ~> ppc[Runner] = "idle"


(***************************************************************************)
(* Claims about a failing load of the store file (SpecQuery)               *)
(***************************************************************************)

\* C36: a reading operation whose load of the store file fails returns
\* RepositoryError, never an empty or default result. The store is not
\* written between the call and its return, so the load that failed is the
\* load of the present file under the fault the call was made with.
C36_LoadFailureSurfaced ==
    /\ Idle(Client)
    /\ op[Client] \in {"search", "get_concepts", "count", "themes", "latest", "exists"}
    /\ obs[Client] = store
    /\ ~LoadDataframe(store, arg[Client].io = "read").ok
    => res[Client].k = RepositoryError


(***************************************************************************)
(* Claims about a run that did not get the lock (SpecPipe)                 *)
(***************************************************************************)

\* C37: while an instance is executing its stages, after a run of another
\* instance has failed to acquire the lock and returned, the marker file of
\* the holder is still at the marker's path, and an instance that has opened
\* the marker for a further acquisition finds the holder's lock on it.
C37_FailedRunKeepsMarker ==
    \A i, j \in Instances :
        Running(i) /\ j # i
        => /\ ppc[j] = "idle" /\ exit[j] = "not_acquired" => lockPath = held[i]
           /\ ppc[j] = "acquire_flock" => flockOf[fd[j]] # 0


(***************************************************************************)
(* Claims about the backup files once written (SpecBackup)                 *)
(***************************************************************************)

\* C40: a backup file keeps the content the store had when backup() returned
\* its path, whatever is called afterwards: for every backup() among the last
\* calls that returned a path, the file at that path equals the store as it
\* was at that return.
C40_BackupKept ==
    \A k \in 1..Len(hist.calls) :
        hist.calls[k].op = "backup" /\ hist.calls[k].res.k = "ok"
        => backups[hist.calls[k].res.n] = hist.calls[k].post

====
